---- MODULE Spec2Model ----
(***************************************************************************)
(* Model of retrospec's search controller (internal/run), its prompt       *)
(* validators, realism / novelty / technical-similarity scoring.           *)
(*                                                                         *)
(* Conventions                                                             *)
(*  - Go strings are TLA+ strings; Len, SubSeq and \o act on them          *)
(*    character by character (all modelled texts are ASCII, so bytes and   *)
(*    characters coincide).                                                *)
(*  - The backtick (U+0060) cannot be written inside a TLA+ string         *)
(*    literal; the character BT stands for it in every modelled text.      *)
(*  - float64 scores are exact rationals <<n, d>> with d > 0 in lowest     *)
(*    terms; rounding error of the floating point operations is not        *)
(*    modelled.                                                            *)
(***************************************************************************)
EXTENDS Integers, Sequences, FiniteSets, TLC

(***************************************************************************)
(* Rational arithmetic (float64 values of the program).                    *)
(***************************************************************************)
\* The operations are functions of the values of their arguments; the
\* operators below apply them.
gcd[a \in Int, b \in Int] == IF b = 0 THEN a ELSE gcd[b, a % b]

GCD(a, b) == gcd[a, b]

Abs(x) == IF x < 0 THEN -x ELSE x

Rat == Int \X Int

\* the float64 value that is not a number: what strconv.ParseFloat makes of
\* "NaN"; every sum and product with it is NaN, every comparison is false
NaN == <<0, 0>>

IsNaN(x) == x[2] = 0

norm[n \in Int, d \in Int] ==
  LET g == gcd[Abs(n), Abs(d)]
      s == IF d < 0 THEN -1 ELSE 1
  IN  IF d = 0 THEN NaN
      ELSE IF n = 0 THEN <<0, 1>> ELSE <<(s * n) \div g, (s * d) \div g>>

Norm(n, d) == norm[n, d]

R(n, d) == Norm(n, d)
RInt(n) == <<n, 1>>
\* sums, products and comparisons reduce by common divisors first, so that
\* the intermediate integers stay small
scale[x \in Rat, y \in Rat] == y[2] \div gcd[x[2], y[2]]

radd[x \in Rat, y \in Rat] ==
  IF x[2] = 0 \/ y[2] = 0 THEN NaN ELSE
  norm[x[1] * scale[x, y] + y[1] * scale[y, x], x[2] * scale[x, y]]

rsub[x \in Rat, y \in Rat] ==
  IF x[2] = 0 \/ y[2] = 0 THEN NaN ELSE
  norm[x[1] * scale[x, y] - y[1] * scale[y, x], x[2] * scale[x, y]]

rmul[x \in Rat, y \in Rat] ==
  IF x[2] = 0 \/ y[2] = 0 THEN NaN ELSE
  norm[(x[1] \div gcd[Abs(x[1]), y[2]]) * (y[1] \div gcd[Abs(y[1]), x[2]]),
       (x[2] \div gcd[Abs(y[1]), x[2]]) * (y[2] \div gcd[Abs(x[1]), y[2]])]

rlt[x \in Rat, y \in Rat] ==
  x[2] # 0 /\ y[2] # 0 /\ x[1] * scale[x, y] < y[1] * scale[y, x]

rle[x \in Rat, y \in Rat] ==
  x[2] # 0 /\ y[2] # 0 /\ x[1] * scale[x, y] <= y[1] * scale[y, x]

\* math.Min and math.Max
rmin[x \in Rat, y \in Rat] ==
  IF x[2] = 0 \/ y[2] = 0 THEN NaN ELSE IF rlt[y, x] THEN y ELSE x

rmax[x \in Rat, y \in Rat] ==
  IF x[2] = 0 \/ y[2] = 0 THEN NaN ELSE IF rlt[x, y] THEN y ELSE x

Scale(x, y) == scale[x, y]
RAdd(x, y) == radd[x, y]
RSub(x, y) == rsub[x, y]
RMul(x, y) == rmul[x, y]
RLt(x, y) == rlt[x, y]
RLe(x, y) == rle[x, y]
RGt(x, y) == rlt[y, x]
RGe(x, y) == rle[y, x]
RMin(x, y) == rmin[x, y]
RMax(x, y) == rmax[x, y]
RZero == <<0, 1>>
ROne == <<1, 1>>
RIsZero(x) == x[1] = 0
\* x / y for y # 0
RDiv(x, y) == RMul(x, IF y[1] < 0 THEN <<0 - y[2], 0 - y[1]>> ELSE <<y[2], y[1]>>)

(***************************************************************************)
(* String primitives (Go package strings).                                 *)
(***************************************************************************)
\* stand-in for the backtick character
BT == "~"

Ch(s, i) == SubSeq(s, i, i)

UpperLetters == "ABCDEFGHIJKLMNOPQRSTUVWXYZ"
LowerLetters == "abcdefghijklmnopqrstuvwxyz"
Digits == "0123456789"

CharsOf(s) == {Ch(s, i) : i \in 1..Len(s)}
UpperSet == CharsOf(UpperLetters)
LowerSet == CharsOf(LowerLetters)
DigitSet == CharsOf(Digits)
\* \s of Go regexp and the ASCII part of unicode.IsSpace
SpaceSet == {" ", "\t", "\n", "\r", "\f"}
\* \w of Go regexp
WordSet == UpperSet \cup LowerSet \cup DigitSet \cup {"_"}

IsSpace(c) == c \in SpaceSet
IsDigit(c) == c \in DigitSet
IsWord(c) == c \in WordSet

LowerCh(c) ==
  IF c \in UpperSet
  THEN Ch(LowerLetters, CHOOSE i \in 1..26 : Ch(UpperLetters, i) = c)
  ELSE c

UpperCh(c) ==
  IF c \in LowerSet
  THEN Ch(UpperLetters, CHOOSE i \in 1..26 : Ch(LowerLetters, i) = c)
  ELSE c

\* the characters lo..hi of s, each mapped to lower or upper case
RECURSIVE MapChars(_, _, _, _)
MapChars(s, lo, hi, up) ==
  IF lo > hi THEN ""
  ELSE IF lo = hi THEN (IF up THEN UpperCh(Ch(s, lo)) ELSE LowerCh(Ch(s, lo)))
  ELSE LET mid == (lo + hi) \div 2
       IN  MapChars(s, lo, mid, up) \o MapChars(s, mid + 1, hi, up)

ToLower(s) == MapChars(s, 1, Len(s), FALSE)
ToUpper(s) == MapChars(s, 1, Len(s), TRUE)

\* the elements of a finite set of integers in increasing order
RECURSIVE SortedSeqIn(_, _, _)
SortedSeqIn(S, lo, hi) ==
  IF lo > hi THEN <<>>
  ELSE IF lo = hi THEN (IF lo \in S THEN <<lo>> ELSE <<>>)
  ELSE LET mid == (lo + hi) \div 2
       IN  SortedSeqIn(S, lo, mid) \o SortedSeqIn(S, mid + 1, hi)

\* for a set S of positions 1..n
SortedSeq(S, n) == SortedSeqIn(S, 1, n)

\* s[i:] starts with p  (i is 1-based)
HasAt(s, i, p) == i >= 1 /\ i + Len(p) - 1 <= Len(s) /\ SubSeq(s, i, i + Len(p) - 1) = p
HasPrefix(s, p) == HasAt(s, 1, p)
HasSuffix(s, p) == Len(p) <= Len(s) /\ HasAt(s, Len(s) - Len(p) + 1, p)
Contains(s, sub) == \E i \in 1..(Len(s) + 1) : HasAt(s, i, sub)

\* strings.Count for a non-empty sub: non-overlapping occurrences, leftmost first
RECURSIVE CountFrom(_, _, _)
CountFrom(s, sub, from) ==
  LET hits == {i \in from..Len(s) : HasAt(s, i, sub)}
  IN  IF hits = {} THEN 0
      ELSE LET i == CHOOSE h \in hits : \A g \in hits : h <= g
           IN  1 + CountFrom(s, sub, i + Len(sub))

Count(s, sub) == CountFrom(s, sub, 1)

\* strings.TrimSpace
\* strings.Trim(s, cutset)
Trim(s, cutset) ==
  IF \A i \in 1..Len(s) : Ch(s, i) \in cutset THEN ""
  ELSE LET lo == CHOOSE i \in 1..Len(s) :
                   Ch(s, i) \notin cutset /\ \A j \in 1..(i - 1) : Ch(s, j) \in cutset
           back == CHOOSE k \in 0..(Len(s) - 1) :
                     /\ Ch(s, Len(s) - k) \notin cutset
                     /\ \A j \in (Len(s) - k + 1)..Len(s) : Ch(s, j) \in cutset
       IN  SubSeq(s, lo, Len(s) - back)

\* strings.TrimSpace
TrimSpace(s) == Trim(s, SpaceSet)

\* strings.TrimRight(s, "\r")
RECURSIVE TrimRightCR(_)
TrimRightCR(s) ==
  IF Len(s) > 0 /\ Ch(s, Len(s)) = "\r" THEN TrimRightCR(SubSeq(s, 1, Len(s) - 1)) ELSE s

\* strings.Split(s, sep) for a one-character sep
Split(s, sep) ==
  LET seps == SortedSeq({i \in 1..Len(s) : Ch(s, i) = sep}, Len(s))
      n == Len(seps)
  IN  [k \in 1..(n + 1) |->
         SubSeq(s, IF k = 1 THEN 1 ELSE seps[k - 1] + 1, IF k = n + 1 THEN Len(s) ELSE seps[k] - 1)]

\* strings.Fields
Fields(s) ==
  LET starts == SortedSeq({i \in 1..Len(s) :
                             ~IsSpace(Ch(s, i)) /\ (i = 1 \/ IsSpace(Ch(s, i - 1)))}, Len(s))
      ends == SortedSeq({i \in 1..Len(s) :
                           ~IsSpace(Ch(s, i)) /\ (i = Len(s) \/ IsSpace(Ch(s, i + 1)))}, Len(s))
  IN  [k \in DOMAIN starts |-> SubSeq(s, starts[k], ends[k])]

\* strings.Join
RECURSIVE Join(_, _)
Join(parts, sep) ==
  IF Len(parts) = 0 THEN ""
  ELSE IF Len(parts) = 1 THEN parts[1]
  ELSE parts[1] \o sep \o Join(Tail(parts), sep)

Range(f) == {f[i] : i \in DOMAIN f}


\* strconv.Itoa for n >= 0 (used by fmt.Sprintf("%d"))
RECURSIVE Itoa(_)
Itoa(n) == IF n < 10 THEN Ch(Digits, n + 1) ELSE Itoa(n \div 10) \o Ch(Digits, (n % 10) + 1)

(***************************************************************************)
(* Regular-expression helpers.  Positions are 1-based; position Len(s)+1   *)
(* is the end of the text.                                                 *)
(***************************************************************************)
CharAt(s, i) == IF i >= 1 /\ i <= Len(s) THEN Ch(s, i) ELSE ""
WordAt(s, i) == IsWord(CharAt(s, i))
DigitAt(s, i) == IsDigit(CharAt(s, i))
SpaceAt(s, i) == IsSpace(CharAt(s, i))

\* (?m)^ : start of the text and the position after every newline
LineStarts(s) == {1} \cup {i + 1 : i \in {j \in 1..Len(s) : Ch(s, j) = "\n"}}

\* end (exclusive) of the maximal run of whitespace starting at i
WsEnd(s, i) ==
  CHOOSE q \in i..(Len(s) + 1) :
    /\ ~SpaceAt(s, q)
    /\ \A j \in i..(q - 1) : SpaceAt(s, j)

\* positions reachable from i by \s*
AfterWs(s, i) == i..WsEnd(s, i)

\* last index of the maximal run of digits starting at i (i - 1 when empty)
DigitRunEnd(s, i) ==
  CHOOSE e \in (i - 1)..Len(s) :
    /\ ~DigitAt(s, e + 1)
    /\ \A j \in i..e : DigitAt(s, j)

\* last index of the maximal run of non-space characters starting at i
NonSpaceRunEnd(s, i) ==
  CHOOSE e \in (i - 1)..Len(s) :
    /\ (e = Len(s) \/ SpaceAt(s, e + 1))
    /\ \A j \in i..e : ~SpaceAt(s, j)

\* \s+\S+ starting at position i
WsThenNonWs(s, i) == SpaceAt(s, i) /\ WsEnd(s, i) <= Len(s)

(***************************************************************************)
(* Prompt validation (package run, validate.go).                           *)
(***************************************************************************)
TrackerKeywords == <<"issue", "issues", "pr", "pull request", "pull requests">>

\* (?:#\d+|(?:issue|issues|pr|pull request|pull requests)\s*#?\d+)\b tried at
\* position b of the lower-cased text ls: last index of the match, 0 if none
TrackerBodyEnd(ls, b) ==
  LET hashEnd == DigitRunEnd(ls, b + 1)
      kwEnd(k) ==
        LET q == WsEnd(ls, b + Len(k))
            d == IF CharAt(ls, q) = "#" THEN q + 1 ELSE q
            e == DigitRunEnd(ls, d)
        IN  IF HasAt(ls, b, k) /\ DigitAt(ls, d) /\ ~WordAt(ls, e + 1) THEN e ELSE 0
      hits == {i \in 1..Len(TrackerKeywords) : kwEnd(TrackerKeywords[i]) # 0}
  IN  IF CharAt(ls, b) = "#" /\ DigitAt(ls, b + 1) /\ ~WordAt(ls, hashEnd + 1)
      THEN hashEnd
      ELSE IF hits # {}
           THEN kwEnd(TrackerKeywords[CHOOSE i \in hits : \A j \in hits : i <= j])
           ELSE 0

\* (?i)(?:^|\s)(?:...)\b tried at position i: last index of the match, 0 if none
TrackerMatchAt(ls, i) ==
  IF i = 1 /\ TrackerBodyEnd(ls, 1) # 0 THEN TrackerBodyEnd(ls, 1)
  ELSE IF SpaceAt(ls, i) THEN TrackerBodyEnd(ls, i + 1)
  ELSE 0

issueRefRe(s) == LET ls == ToLower(s) IN \E i \in 1..Len(s) : TrackerMatchAt(ls, i) # 0

\* (?m)^(?:diff\s+--git|@@\s|\+\+\+\s|---\s)
diffMarkerRe(s) ==
  \E st \in LineStarts(s) :
    \/ HasAt(s, st, "diff") /\ SpaceAt(s, st + 4) /\ HasAt(s, WsEnd(s, st + 4), "--git")
    \/ HasAt(s, st, "@@") /\ SpaceAt(s, st + 2)
    \/ HasAt(s, st, "+++") /\ SpaceAt(s, st + 3)
    \/ HasAt(s, st, "---") /\ SpaceAt(s, st + 3)

\* (?mi)^\s*(?:\$\s*|git\s+\S+|go\s+(?:test|run|build|tool)\b|npm\s+\S+|npx\s+\S+
\*            |cargo\s+\S+|make\b|bash\b|sh\b)
commandLineRe(s) ==
  LET ls == ToLower(s) IN
  \E st \in LineStarts(ls) : \E q \in AfterWs(ls, st) :
    \/ HasAt(ls, q, "$")
    \/ \E c \in {"git", "npm", "npx", "cargo"} :
         HasAt(ls, q, c) /\ WsThenNonWs(ls, q + Len(c))
    \/ /\ HasAt(ls, q, "go") /\ SpaceAt(ls, q + 2)
       /\ \E w \in {"test", "run", "build", "tool"} :
            LET r == WsEnd(ls, q + 2) IN HasAt(ls, r, w) /\ ~WordAt(ls, r + Len(w))
    \/ \E c \in {"make", "bash", "sh"} : HasAt(ls, q, c) /\ ~WordAt(ls, q + Len(c))

\* (?m)^\s*at\s+\S+\s+\(.+?:\d+
stackTraceRe(s) ==
  \E st \in LineStarts(s) : \E q \in AfterWs(s, st) :
    /\ HasAt(s, q, "at") /\ WsThenNonWs(s, q + 2)
    /\ LET e == NonSpaceRunEnd(s, WsEnd(s, q + 2))
           t == WsEnd(s, e + 1)
       IN  /\ SpaceAt(s, e + 1) /\ CharAt(s, t) = "("
           /\ \E c \in (t + 2)..Len(s) :
                /\ Ch(s, c) = ":" /\ DigitAt(s, c + 1)
                /\ \A j \in (t + 1)..(c - 1) : Ch(s, j) # "\n"

PathCharSet == WordSet \cup {".", "/", "-"}

\* (?m)[A-Za-z0-9_./-]+:\d+(?::\d+)?:\s
compileErrRe(s) ==
  \E c \in 2..Len(s) :
    /\ Ch(s, c) = ":" /\ Ch(s, c - 1) \in PathCharSet /\ DigitAt(s, c + 1)
    /\ LET e == DigitRunEnd(s, c + 1)
           e2 == DigitRunEnd(s, e + 2)
       IN  /\ CharAt(s, e + 1) = ":"
           /\ \/ SpaceAt(s, e + 2)
              \/ DigitAt(s, e + 2) /\ CharAt(s, e2 + 1) = ":" /\ SpaceAt(s, e2 + 2)

\* (?im)^\s*#\s*(k1|k2|...)\b ; an optional tail of an alternative that can only
\* follow a word boundary does not change whether the expression matches
SectionRe(s, keywords) ==
  LET ls == ToLower(s) IN
  \E st \in LineStarts(ls) :
    LET q == WsEnd(ls, st) IN
    /\ CharAt(ls, q) = "#"
    /\ \E k \in keywords :
         LET r == WsEnd(ls, q + 1) IN HasAt(ls, r, k) /\ ~WordAt(ls, r + Len(k))

sectionContextRe(s) == SectionRe(s, {"context"})
sectionOutcomeRe(s) == SectionRe(s, {"desired outcome", "desired outcomes", "goal", "goals"})
sectionConstraintRe(s) ==
  SectionRe(s, {"constraint", "constraints", "non-goal", "non-goals", "out of scope"})
sectionAcceptRe(s) ==
  SectionRe(s, {"acceptance criteria", "validation", "test expectation", "test expectations"})

\* the returned string is the error text; "" is a nil error
CodeLikePrefixedLine(line) ==
  LET l == TrimSpace(line) IN
  (HasPrefix(l, "+") \/ HasPrefix(l, "-")) /\ Len(l) > 1 /\ Ch(l, 2) # " "

ValidateNoCodePrompt(prompt, maxLength) ==
  LET trimmed == TrimSpace(prompt) IN
  IF trimmed = "" THEN "candidatePrompt is empty"
  ELSE IF maxLength > 0 /\ Len(trimmed) > maxLength
       THEN "candidatePrompt exceeds max length (" \o Itoa(Len(trimmed)) \o " > " \o Itoa(maxLength) \o ")"
  ELSE IF Contains(trimmed, BT \o BT \o BT) THEN "candidatePrompt contains fenced code block"
  ELSE IF Contains(trimmed, BT) THEN "candidatePrompt contains inline code marker"
  ELSE IF diffMarkerRe(trimmed) THEN "candidatePrompt contains diff markers"
  ELSE IF commandLineRe(trimmed) THEN "candidatePrompt appears to include command lines"
  ELSE IF stackTraceRe(trimmed) THEN "candidatePrompt appears to include stack trace lines"
  ELSE IF compileErrRe(trimmed) THEN "candidatePrompt appears to include compiler/log output"
  ELSE IF issueRefRe(trimmed) THEN "candidatePrompt includes issue/PR references (for example #123)"
  ELSE IF \E i \in DOMAIN Split(trimmed, "\n") : CodeLikePrefixedLine(Split(trimmed, "\n")[i])
       THEN "candidatePrompt has code-like prefixed lines"
  ELSE ""

ValidateStructuredPrompt(prompt) ==
  LET trimmed == TrimSpace(prompt) IN
  IF trimmed = "" THEN "candidatePrompt is empty"
  ELSE IF ~sectionContextRe(trimmed) THEN "missing # Context section"
  ELSE IF ~sectionOutcomeRe(trimmed) THEN "missing # Desired Outcomes section"
  ELSE IF ~sectionConstraintRe(trimmed) THEN "missing # Constraints and Non-Goals section"
  ELSE IF ~sectionAcceptRe(trimmed) THEN "missing # Acceptance Criteria section"
  ELSE ""

\* trackerRefCleanupRe.ReplaceAllString(s, "")
RECURSIVE StripFrom(_, _, _)
StripFrom(s, ls, from) ==
  LET hits == {i \in from..Len(s) : TrackerMatchAt(ls, i) # 0}
  IN  IF hits = {} THEN SubSeq(s, from, Len(s))
      ELSE LET i == CHOOSE h \in hits : \A g \in hits : h <= g
           IN  SubSeq(s, from, i - 1) \o StripFrom(s, ls, TrackerMatchAt(ls, i) + 1)

stripTrackerRefs(s) == StripFrom(s, ToLower(s), 1)

(***************************************************************************)
(* Realism heuristic (package scoring, realism.go).                        *)
(***************************************************************************)
clamp01(v) == RMax(RZero, RMin(ROne, v))

maxInt(a, b) == IF a > b THEN a ELSE b
minInt(a, b) == IF a < b THEN a ELSE b

PathSegSet == WordSet \cup {".", "-"}

\* last index of the maximal run of path-segment characters starting at i
SegRunEnd(s, i) ==
  CHOOSE e \in (i - 1)..Len(s) :
    /\ CharAt(s, e + 1) \notin PathSegSet
    /\ \A j \in i..e : Ch(s, j) \in PathSegSet

\* (?:[A-Za-z0-9._-]+/)+[A-Za-z0-9._-]+ at position b, given that the segment
\* starting at b has already been matched up to e: last index of the match
RECURSIVE PathExtend(_, _)
PathExtend(s, e) ==
  IF CharAt(s, e + 1) = "/" /\ CharAt(s, e + 2) \in PathSegSet
  THEN PathExtend(s, SegRunEnd(s, e + 2))
  ELSE e

\* pathRe = (?m)(?:^|\s)(?:[A-Za-z0-9._-]+/)+[A-Za-z0-9._-]+ ; the set of the
\* matches with surrounding space trimmed
PathRefs(s) ==
  LET starts == {b \in 1..Len(s) :
                   /\ b \in LineStarts(s) \/ SpaceAt(s, b - 1)
                   /\ Ch(s, b) \in PathSegSet
                   /\ PathExtend(s, SegRunEnd(s, b)) > SegRunEnd(s, b)}
  IN  {SubSeq(s, b, PathExtend(s, SegRunEnd(s, b))) : b \in starts}

countPathRefs(s) == Cardinality(PathRefs(s))

looksLikeIdentifier(tok) ==
  \/ Contains(tok, "_")
  \/ ToUpper(tok) = tok /\ Len(tok) >= 3
  \/ \E i \in 2..Len(tok) : Ch(tok, i) \in UpperSet

\* last index of the maximal run of word characters starting at i
WordRunEnd(s, i) ==
  CHOOSE e \in (i - 1)..Len(s) :
    /\ ~WordAt(s, e + 1)
    /\ \A j \in i..e : WordAt(s, j)

\* identifierRe = \b[A-Za-z_][A-Za-z0-9_]{2,}\b : the matches are the maximal
\* runs of word characters of length >= 3 that do not start with a digit
IdentifierStarts(s) ==
  {i \in 1..Len(s) :
     /\ WordAt(s, i) /\ ~WordAt(s, i - 1) /\ ~DigitAt(s, i)
     /\ WordRunEnd(s, i) - i + 1 >= 3}

countLikelyIdentifiers(s) ==
  Cardinality({i \in IdentifierStarts(s) : looksLikeIdentifier(SubSeq(s, i, WordRunEnd(s, i)))})

\* numericRe = \b\d+(?:\.\d+)?\b tried at position i: last index, 0 if none
NumMatchEnd(s, i) ==
  IF ~(DigitAt(s, i) /\ ~WordAt(s, i - 1)) THEN 0
  ELSE LET e == DigitRunEnd(s, i)
           e2 == DigitRunEnd(s, e + 2)
       IN  IF CharAt(s, e + 1) = "." /\ DigitAt(s, e + 2) /\ ~WordAt(s, e2 + 1) THEN e2
           ELSE IF ~WordAt(s, e + 1) THEN e
           ELSE 0

\* len(numericRe.FindAllString(s, -1)): leftmost, non-overlapping matches
RECURSIVE NumericCountFrom(_, _)
NumericCountFrom(s, from) ==
  LET cands == {i \in from..Len(s) : NumMatchEnd(s, i) # 0}
  IN  IF cands = {} THEN 0
      ELSE LET i == CHOOSE c \in cands : \A d \in cands : c <= d
           IN  1 + NumericCountFrom(s, NumMatchEnd(s, i) + 1)

numericCount(s) == NumericCountFrom(s, 1)

\* bulletRe = (?m)^\s*(?:[-*]|\d+\.)\s+ tried at line start st: last index, 0 if none
BulletMatchEnd(s, st) ==
  LET q == WsEnd(s, st)
      m == IF CharAt(s, q) \in {"-", "*"} THEN q
           ELSE IF DigitAt(s, q) /\ CharAt(s, DigitRunEnd(s, q) + 1) = "."
                THEN DigitRunEnd(s, q) + 1
                ELSE 0
  IN  IF m # 0 /\ SpaceAt(s, m + 1) THEN WsEnd(s, m + 1) - 1 ELSE 0

RECURSIVE BulletCountFrom(_, _)
BulletCountFrom(s, from) ==
  LET cands == {st \in LineStarts(s) : st >= from /\ st <= Len(s) /\ BulletMatchEnd(s, st) # 0}
  IN  IF cands = {} THEN 0
      ELSE LET st == CHOOSE c \in cands : \A d \in cands : c <= d
           IN  1 + BulletCountFrom(s, BulletMatchEnd(s, st) + 1)

bulletCount(s) == BulletCountFrom(s, 1)

RECURSIVE SumSeq(_)
SumSeq(q) == IF Len(q) = 0 THEN 0 ELSE Head(q) + SumSeq(Tail(q))

keywordCount(s, keywords) == SumSeq([i \in DOMAIN keywords |-> Count(s, keywords[i])])

hasAny(s, keywords) == \E i \in DOMAIN keywords : Contains(s, keywords[i])

SoftLengthLimit == 2600
NumericLimit == 12
BulletLimit == 10
StepWordLimit == 5

\* the adjustments of ScoreRealismHeuristic, in the order of the code; each is
\* <<delta, reason>> with reason "" when none is recorded
RealismAdjustments(text, cfg) ==
  LET length == Len(text)
      lower == ToLower(text)
      pathRefs == countPathRefs(text)
      identifierCount == countLikelyIdentifiers(text)
      numerics == numericCount(text)
      bullets == bulletCount(text)
      stepWords == keywordCount(lower, <<"then", "after that", "step", "next,">>)
      neg(x) == RSub(RZero, x)
  IN  << IF cfg.MaxLength > 0
         THEN IF length <= cfg.MaxLength THEN <<R(8, 100), "">>
              ELSE <<neg(RMin(R(25, 100),
                              RMul(R(length - cfg.MaxLength, maxInt(1, cfg.MaxLength)), R(35, 100)))),
                     "prompt is overly long and likely too prescriptive">>
         ELSE IF length <= SoftLengthLimit THEN <<R(3, 100), "">>
              ELSE <<neg(RMin(R(20, 100),
                              RMul(R(length - SoftLengthLimit, SoftLengthLimit), R(25, 100)))),
                     "prompt is very long and may become too prescriptive">>,
         IF pathRefs > cfg.MaxPathRefs
         THEN <<neg(RMin(R(25, 100), RMul(RInt(pathRefs - cfg.MaxPathRefs), R(7, 100)))),
                "too many file path references make it look diff-driven">>
         ELSE IF pathRefs > 0 THEN <<R(2, 100), "">> ELSE <<RZero, "">>,
         IF identifierCount > cfg.MaxIdentifiers
         THEN <<neg(RMin(R(25, 100), RMul(RInt(identifierCount - cfg.MaxIdentifiers), R(2, 100)))),
                "identifier density is high for a high-level specification">>
         ELSE <<R(4, 100), "">>,
         IF numerics > NumericLimit
         THEN <<neg(R(12, 100)), "too many exact constants can indicate overfitting">>
         ELSE <<RZero, "">>,
         IF bullets > BulletLimit
         THEN <<neg(RMin(R(20, 100), RMul(RInt(bullets - BulletLimit), R(2, 100)))),
                "excessive checklists can encode micro-diffs">>
         ELSE <<RZero, "">>,
         IF stepWords > StepWordLimit
         THEN <<neg(RMin(R(15, 100), RMul(RInt(stepWords - StepWordLimit), R(3, 100)))),
                "instruction sequence is too low-level">>
         ELSE <<RZero, "">>,
         IF hasAny(lower, <<"problem", "motivation", "currently", "pain point", "context">>)
         THEN <<R(6, 100), "">> ELSE <<RZero, "missing clear problem statement/motivation">>,
         IF hasAny(lower, <<"should", "must", "expected", "behavior", "outcome">>)
         THEN <<R(6, 100), "">> ELSE <<RZero, "desired behavior is not explicit enough">>,
         IF hasAny(lower, <<"non-goal", "out of scope", "do not", "avoid">>)
         THEN <<R(7, 100), "">> ELSE <<RZero, "constraints or non-goals are missing">>,
         IF hasAny(lower, <<"acceptance", "test", "verify", "pass">>)
         THEN <<R(7, 100), "">>
         ELSE <<RZero, "acceptance criteria or test expectations are missing">> >>

RECURSIVE RSumFirst(_)
RSumFirst(q) == IF Len(q) = 0 THEN RZero ELSE RAdd(Head(q)[1], RSumFirst(Tail(q)))

SelectSeq2(q) == SelectSeq([i \in DOMAIN q |-> q[i][2]], LAMBDA r : r # "")

\* a variant of the heuristic below that does not clamp the sum
ScoreRealismUnclamped(prompt, cfg) ==
  LET text == TrimSpace(prompt) IN
  IF text = "" THEN [HeuristicScore |-> RZero, JudgeScore |-> RZero, Score |-> RZero, Reasons |-> <<>>]
  ELSE LET adj == RealismAdjustments(text, cfg)
       IN  [HeuristicScore |-> RAdd(R(55, 100), RSumFirst(adj)),
            JudgeScore |-> RZero,
            Score |-> RZero,
            Reasons |-> SelectSeq2(adj)]

ScoreRealismHeuristic(prompt, cfg) ==
  LET text == TrimSpace(prompt) IN
  IF text = "" THEN [HeuristicScore |-> RZero, JudgeScore |-> RZero, Score |-> RZero, Reasons |-> <<>>]
  ELSE LET adj == RealismAdjustments(text, cfg)
       IN  [HeuristicScore |-> clamp01(RAdd(R(55, 100), RSumFirst(adj))),
            JudgeScore |-> RZero,
            Score |-> RZero,
            Reasons |-> SelectSeq2(adj)]

CombineRealismAlwaysJudge(heuristic, judge, hasJudge) ==
  clamp01(RAdd(RMul(R(6, 10), heuristic), RMul(R(4, 10), judge)))

CombineRealism(heuristic, judge, hasJudge) ==
  IF ~hasJudge THEN clamp01(heuristic)
  ELSE clamp01(RAdd(RMul(R(6, 10), heuristic), RMul(R(4, 10), judge)))

(***************************************************************************)
(* Novelty (package run, runner.go).                                       *)
(***************************************************************************)
TokenCutset == {" ", "\t", "\n", "\r", ".", ",", ";", ":", "!", "?", "(", ")", "[", "]", "{", "}",
                "\"", "'", BT}

MinTokenLen == 4

toTokenSet(s) ==
  LET f == Fields(ToLower(s))
  IN  {tok \in {Trim(f[i], TokenCutset) : i \in DOMAIN f} : Len(tok) >= MinTokenLen}

\* a variant of the similarity below that gives two empty token sets 0
jaccardTokensEmptyIsZero(a, b) ==
  IF a = {} /\ b = {} THEN RZero
  ELSE LET inter == Cardinality(a \cap b)
           union == Cardinality(a) + Cardinality(b) - inter
       IN  IF union = 0 THEN RZero ELSE R(inter, union)

jaccardTokens(a, b) ==
  IF a = {} /\ b = {} THEN ROne
  ELSE LET inter == Cardinality(a \cap b)
           union == Cardinality(a) + Cardinality(b) - inter
       IN  IF union = 0 THEN RZero ELSE R(inter, union)

\* the loop of noveltyScore over the token sets of the history entries
RECURSIVE BestSimilarity(_, _, _)
BestSimilarity(candTokens, historyTokens, best) ==
  IF Len(historyTokens) = 0 THEN best
  ELSE CHOOSE r \in {BestSimilarity(candTokens, Tail(historyTokens),
                                    IF RGt(sim, b) THEN sim ELSE b) :
                       sim \in {jaccardTokens(candTokens, Head(historyTokens))}, b \in {best}} : TRUE

\* noveltyScore on the token sets of the candidate and of the history entries
NoveltyOfTokens(candTokens, historyTokens) ==
  IF Len(historyTokens) = 0 THEN ROne
  ELSE clamp01(RSub(ROne, BestSimilarity(candTokens, historyTokens, RZero)))

noveltyScore(candidate, history) ==
  NoveltyOfTokens(toTokenSet(candidate), [i \in DOMAIN history |-> toTokenSet(history[i])])

(***************************************************************************)
(* sort.Strings: byte-wise lexicographic order.  AsciiOrder lists the      *)
(* printable ASCII characters in code order, with BT at the place of the   *)
(* backtick; tab, newline and carriage return sort before all of them.     *)
(***************************************************************************)
AsciiOrder ==
  " !\"#$%&'()*+,-./0123456789:;<=>?@ABCDEFGHIJKLMNOPQRSTUVWXYZ[\\]^_~abcdefghijklmnopqrstuvwxyz{|}"

CharRank(c) ==
  IF c = "\t" THEN 0 - 3
  ELSE IF c = "\n" THEN 0 - 2
  ELSE IF c = "\r" THEN 0 - 1
  ELSE CHOOSE i \in 1..Len(AsciiOrder) : Ch(AsciiOrder, i) = c

StrLess(a, b) ==
  LET diff == {i \in 1..minInt(Len(a), Len(b)) : Ch(a, i) # Ch(b, i)}
  IN  IF diff = {} THEN Len(a) < Len(b)
      ELSE LET i == CHOOSE d \in diff : \A e \in diff : d <= e
           IN  CharRank(Ch(a, i)) < CharRank(Ch(b, i))

\* insert x into the sorted sequence q, after the elements that are not greater
RECURSIVE InsertSorted(_, _)
InsertSorted(q, x) ==
  IF Len(q) = 0 THEN <<x>>
  ELSE IF StrLess(x, Head(q)) THEN <<x>> \o q
  ELSE <<Head(q)>> \o InsertSorted(Tail(q), x)

RECURSIVE SortStrings(_)
SortStrings(q) ==
  IF Len(q) = 0 THEN <<>>
  ELSE CHOOSE r \in {InsertSorted(v, q[Len(q)]) : v \in {SortStrings(SubSeq(q, 1, Len(q) - 1))}} : TRUE

(***************************************************************************)
(* Diff snapshots (package git).                                           *)
(***************************************************************************)
\* parseLines: trimmed non-empty lines, sorted
parseLines(s) ==
  IF TrimSpace(s) = "" THEN <<>>
  ELSE LET parts == Split(TrimSpace(s), "\n")
           trimmed == [i \in DOMAIN parts |-> TrimSpace(parts[i])]
       IN  SortStrings(SelectSeq(trimmed, LAMBDA l : l # ""))

\* strconv.Atoi of a decimal string without sign; -1 when it is not a number
RECURSIVE AtoiFrom(_, _, _)
AtoiFrom(s, i, acc) ==
  IF i > Len(s) THEN acc
  ELSE IF ~IsDigit(Ch(s, i)) THEN 0 - 1
  ELSE AtoiFrom(s, i + 1, acc * 10 + ((CHOOSE d \in 1..10 : Ch(Digits, d) = Ch(s, i)) - 1))

parseNum(s) ==
  IF s = "-" \/ s = "" THEN 0
  ELSE IF AtoiFrom(s, 1, 0) < 0 THEN 0 ELSE AtoiFrom(s, 1, 0)

\* parseNumstat: path -> [Path, Added, Removed]; a later line for the same path
\* overwrites an earlier one
RECURSIVE NumstatFold(_, _)
NumstatFold(lines, stats) ==
  IF Len(lines) = 0 THEN stats
  ELSE LET line == TrimSpace(Head(lines))
           parts == Split(line, "\t")
           path == Join(SubSeq(parts, 3, Len(parts)), "\t")
           st == [Path |-> path, Added |-> parseNum(parts[1]), Removed |-> parseNum(parts[2])]
       IN  IF line = "" \/ Len(parts) < 3 THEN NumstatFold(Tail(lines), stats)
           ELSE NumstatFold(Tail(lines),
                            [p \in (DOMAIN stats) \cup {path} |-> IF p = path THEN st ELSE stats[p]])

EmptyMap == [k \in {} |-> 0]

parseNumstat(s) == NumstatFold(Split(TrimSpace(s), "\n"), EmptyMap)

\* the DiffSnapshot built by SnapshotBetween / SnapshotWorktree from the output
\* of git diff, git diff --name-only and git diff --numstat
DiffSnapshot(patch, filesOut, numstatOut) ==
  [Patch |-> patch, ChangedFiles |-> parseLines(filesOut), FileStats |-> parseNumstat(numstatOut)]

(***************************************************************************)
(* Technical similarity (package scoring, tech.go).                        *)
(***************************************************************************)
\* a multiset map[string]int is a function from its keys to positive counts
BagGet(b, k) == IF k \in DOMAIN b THEN b[k] ELSE 0
BagInc(b, k) == [x \in (DOMAIN b) \cup {k} |-> IF x = k THEN BagGet(b, k) + 1 ELSE b[x]]

RECURSIVE SumOver(_, _)
SumOver(S, f) ==
  IF S = {} THEN 0
  ELSE LET x == CHOOSE y \in S : TRUE IN f[x] + SumOver(S \ {x}, f)

normalizeLine(s) == Join(Fields(TrimSpace(s)), " ")

\* addDiffLine; p is [fileLines, global]
addDiffLine(p, file, prefix, raw) ==
  LET normalized == normalizeLine(raw)
      key == prefix \o normalized
      fl == IF file \in DOMAIN p.fileLines THEN p.fileLines[file] ELSE EmptyMap
  IN  IF normalized = "" THEN p
      ELSE [global |-> BagInc(p.global, key),
            fileLines |-> IF file = "" THEN p.fileLines
                          ELSE [f \in (DOMAIN p.fileLines) \cup {file} |->
                                  IF f = file THEN BagInc(fl, key) ELSE p.fileLines[f]]]

TrimPrefix(s, prefix) == IF HasPrefix(s, prefix) THEN SubSeq(s, Len(prefix) + 1, Len(s)) ELSE s

RECURSIVE ParseFold(_, _, _)
ParseFold(lines, current, result) ==
  IF Len(lines) = 0 THEN result
  ELSE LET line == TrimRightCR(Head(lines))
           parts == Split(line, " ")
           file == TrimPrefix(parts[4], "b/")
           rest == SubSeq(line, 2, Len(line))
       IN  IF HasPrefix(line, "diff --git ")
           THEN IF Len(parts) >= 4
                THEN ParseFold(Tail(lines), file,
                               [result EXCEPT !.fileLines =
                                  [f \in (DOMAIN @) \cup {file} |-> IF f \in DOMAIN @ THEN @[f] ELSE EmptyMap]])
                ELSE ParseFold(Tail(lines), current, result)
           ELSE IF HasPrefix(line, "+++ ") \/ HasPrefix(line, "--- ") \/ HasPrefix(line, "@@")
           THEN ParseFold(Tail(lines), current, result)
           ELSE IF HasPrefix(line, "+") /\ ~HasPrefix(line, "+++")
           THEN ParseFold(Tail(lines), current, addDiffLine(result, current, "+", rest))
           ELSE IF HasPrefix(line, "-") /\ ~HasPrefix(line, "---")
           THEN ParseFold(Tail(lines), current, addDiffLine(result, current, "-", rest))
           ELSE ParseFold(Tail(lines), current, result)

parseUnifiedDiff(patch) ==
  ParseFold(Split(patch, "\n"), "", [fileLines |-> EmptyMap, global |-> EmptyMap])

safeDiv(a, b) ==
  IF RIsZero(b) THEN (IF RIsZero(a) THEN ROne ELSE RZero) ELSE RDiv(a, b)

\* a variant of the weighted Jaccard below that ignores the counts
weightedJaccardOfKeys(a, b) ==
  IF DOMAIN a = {} /\ DOMAIN b = {} THEN ROne
  ELSE safeDiv(RInt(Cardinality((DOMAIN a) \cap (DOMAIN b))),
               RInt(Cardinality((DOMAIN a) \cup (DOMAIN b))))

weightedJaccard(a, b) ==
  IF DOMAIN a = {} /\ DOMAIN b = {} THEN ROne
  ELSE LET unionKeys == (DOMAIN a) \cup (DOMAIN b)
           inter == SumOver(unionKeys, [k \in unionKeys |-> minInt(BagGet(a, k), BagGet(b, k))])
           uni == SumOver(unionKeys, [k \in unionKeys |-> maxInt(BagGet(a, k), BagGet(b, k))])
       IN  safeDiv(RInt(inter), RInt(uni))

\* a variant of the count below that counts the shared keys once each
multisetIntersectionKeys(a, b) == Cardinality((DOMAIN a) \cap (DOMAIN b))

\* a variant of the count below that takes the first side's count of every
\* shared key instead of the smaller one
multisetIntersectionOfFirst(a, b) ==
  SumOver(DOMAIN a, [k \in DOMAIN a |-> IF k \in DOMAIN b THEN a[k] ELSE 0])

multisetIntersectionCount(a, b) ==
  SumOver(DOMAIN a, [k \in DOMAIN a |-> minInt(a[k], BagGet(b, k))])

multisetCount(a) == SumOver(DOMAIN a, a)

toSet(items) == Range(items)

\* a variant of the Jaccard index below that gives two empty sets 0
jaccardSetEmptyIsZero(a, b) ==
  IF a = {} /\ b = {} THEN RZero
  ELSE LET inter == Cardinality(a \cap b)
           union == Cardinality(a) + Cardinality(b) - inter
       IN  safeDiv(RInt(inter), RInt(union))

jaccardSet(a, b) ==
  IF a = {} /\ b = {} THEN ROne
  ELSE LET inter == Cardinality(a \cap b)
           union == Cardinality(a) + Cardinality(b) - inter
       IN  safeDiv(RInt(inter), RInt(union))

StatOf(stats, p) == IF p \in DOMAIN stats THEN stats[p] ELSE [Path |-> "", Added |-> 0, Removed |-> 0]
LinesOf(parsed, p) == IF p \in DOMAIN parsed.fileLines THEN parsed.fileLines[p] ELSE EmptyMap

buildPerFileScores(target, produced, targetParsed, producedParsed) ==
  LET pathsSet == toSet(target.ChangedFiles) \cup toSet(produced.ChangedFiles)
      paths == SortStrings(CHOOSE q \in [1..Cardinality(pathsSet) -> pathsSet] : Range(q) = pathsSet)
  IN  [i \in DOMAIN paths |->
         [Path |-> paths[i],
          Similarity |-> weightedJaccard(LinesOf(targetParsed, paths[i]), LinesOf(producedParsed, paths[i])),
          TargetLinesAdded |-> StatOf(target.FileStats, paths[i]).Added,
          TargetLinesRemoved |-> StatOf(target.FileStats, paths[i]).Removed,
          ProducedLinesAdded |-> StatOf(produced.FileStats, paths[i]).Added,
          ProducedLinesRemoved |-> StatOf(produced.FileStats, paths[i]).Removed]]

totalAddsRemoves(stats) ==
  <<SumOver(DOMAIN stats, [p \in DOMAIN stats |-> stats[p].Added]),
    SumOver(DOMAIN stats, [p \in DOMAIN stats |-> stats[p].Removed])>>

ScoreTechSimilarity(target, produced) ==
  LET targetSet == toSet(target.ChangedFiles)
      producedSet == toSet(produced.ChangedFiles)
      fileJaccard == jaccardSet(targetSet, producedSet)
      targetParsed == parseUnifiedDiff(target.Patch)
      producedParsed == parseUnifiedDiff(produced.Patch)
      diffSimilarity == weightedJaccard(targetParsed.global, producedParsed.global)
      tp == multisetIntersectionCount(targetParsed.global, producedParsed.global)
      targetN == multisetCount(targetParsed.global)
      producedN == multisetCount(producedParsed.global)
      precision == safeDiv(RInt(tp), RInt(producedN))
      recall == safeDiv(RInt(tp), RInt(targetN))
      f1 == safeDiv(RMul(RInt(2), RMul(precision, recall)), RAdd(precision, recall))
  IN  [FileJaccard |-> fileJaccard,
       DiffSimilarity |-> diffSimilarity,
       LinePrecision |-> precision,
       LineRecall |-> recall,
       LineF1 |-> f1,
       Score |-> clamp01(RAdd(RMul(R(40, 100), fileJaccard),
                              RAdd(RMul(R(45, 100), diffSimilarity), RMul(R(15, 100), f1)))),
       PerFile |-> buildPerFileScores(target, produced, targetParsed, producedParsed),
       TargetFiles |-> Cardinality(targetSet),
       ProducedFiles |-> Cardinality(producedSet),
       TargetTotalAdds |-> totalAddsRemoves(target.FileStats)[1],
       TargetTotalDels |-> totalAddsRemoves(target.FileStats)[2],
       ProducedTotalAdds |-> totalAddsRemoves(produced.FileStats)[1],
       ProducedTotalDels |-> totalAddsRemoves(produced.FileStats)[2]]

(***************************************************************************)
(* Commit-message seed (package run, runner.go).                           *)
(***************************************************************************)
\* the prompt text built by makeCommitSeedCandidate for a non-empty stripped
\* commit message msg, before truncation
SeedTemplate(msg) ==
  TrimSpace(
    "# Context\n" \o
    "We need to improve the connection lifecycle to support " \o ToLower(msg) \o
    " while keeping behavior backward compatible for normal handshakes.\n\n" \o
    "# Desired Outcomes\n" \o
    "Add a reliable way to capture minimal runtime connection state and resume from it safely, including validation and graceful fallback when resume is invalid or unavailable.\n\n" \o
    "# Constraints and Non-Goals\n" \o
    "Keep scope focused on resume-related flows, avoid unrelated refactors, and preserve interoperability expectations.\n\n" \o
    "# Acceptance Criteria\n" \o
    "Resumed sessions behave consistently with fresh sessions for security and correctness, error paths are explicit, and tests cover both successful and unsuccessful resume scenarios.")

\* prompt[:MaxLength] when a maximum length is configured and exceeded
Truncated(prompt, maxLength) ==
  IF maxLength > 0 /\ Len(prompt) > maxLength THEN SubSeq(prompt, 1, maxLength) ELSE prompt

\* the seed is dropped when one of the two validators rejects its prompt:
\* <<ok, prompt, error of the rejecting validator>>
SeedVerdict(prompt, noCodeErr, structuredErr) ==
  IF noCodeErr # "" THEN <<FALSE, prompt, noCodeErr>>
  ELSE IF structuredErr # "" THEN <<FALSE, prompt, structuredErr>>
  ELSE <<TRUE, prompt, "">>

SeedChecked(prompt, maxLength) ==
  SeedVerdict(prompt, ValidateNoCodePrompt(prompt, maxLength), ValidateStructuredPrompt(prompt))

\* ... and, before any prompt is built, when nothing is left of the commit
\* message (msg) once the tracker references are stripped
SeedOfMessage(msg, maxLength) ==
  IF msg = "" THEN <<FALSE, "", "">>
  ELSE SeedChecked(Truncated(SeedTemplate(msg), maxLength), maxLength)

\* makeCommitSeedCandidate: whether the seed is produced, its prompt, and the
\* validator error that dropped it
SeedPrompt(commitMessage, maxLength) ==
  SeedOfMessage(TrimSpace(stripTrackerRefs(commitMessage)), maxLength)

(***************************************************************************)
(* The search controller (package run, runner.go): configuration, the      *)
(* texts and diffs its environment can hand back, and the run itself.      *)
(***************************************************************************)
\* Config.Validate: the error text, "" when the configuration is accepted
ConfigValidate(c) ==
  IF c.MaxIters <= 0 THEN "max-iters must be > 0"
  ELSE IF RLt(c.Threshold, RZero) \/ RGt(c.Threshold, ROne) THEN "threshold must be in [0,1]"
  ELSE IF c.TimeoutSeconds <= 0 THEN "timeout-seconds must be > 0"
  ELSE IF RLt(c.Alpha, RZero) \/ RGt(c.Alpha, ROne) THEN "alpha must be in [0,1]"
  ELSE IF c.MaxPathRefs < 0 THEN "max-path-refs must be >= 0"
  ELSE IF c.MaxIdentifiers < 1 THEN "max-identifiers must be >= 1"
  ELSE IF c.MaxLength < 0 THEN "max-length must be >= 0"
  ELSE IF c.CandidatesPerIter < 1 THEN "candidates-per-iter must be >= 1"
  ELSE IF c.CoderRunsPerIter < 1 THEN "coder-runs-per-iter must be >= 1"
  ELSE IF c.CoderRunsPerIter > c.CandidatesPerIter
       THEN "coder-runs-per-iter must be <= candidates-per-iter"
  ELSE ""

\* the realism limits the runner passes to ScoreRealismHeuristic
RealismConfig(c) ==
  [MaxPathRefs |-> c.MaxPathRefs, MaxIdentifiers |-> c.MaxIdentifiers, MaxLength |-> c.MaxLength]

BaseStyles ==
  << "balanced high-level design request",
     "minimal-scope request focused on core behavior",
     "acceptance-criteria-first request",
     "resilience and error-handling focused request",
     "test-oriented request emphasizing observable behavior" >>

candidateStyles(n) ==
  [i \in 1..n |-> IF i <= Len(BaseStyles) THEN BaseStyles[i]
                  ELSE "balanced high-level design request with concise constraints"]

\* a variant that allows one request more per slot
maxAttemptsOff == 5 + 1

\* generateValidCandidate gives up on a slot after this many requests
maxAttempts == 5

\* the run stops after this many iterations in a row without improvement
NoImprovementLimit == 3

\* CandidateDraftLog.Index of the commit-message seed
SeedIndex == 1000

SeedStyle == "commit-message-seed"

\* JudgeRealism: the score of a parsed judge reply, forced into [0, 1]
JudgeScoreOf(raw) == IF RLt(raw, RZero) THEN RZero ELSE IF RGt(raw, ROne) THEN ROne ELSE raw

\* fmt %.2f of a score in [0, 1]: two decimals, a tie rounds to the even digit
Format2(x) ==
  IF IsNaN(x) THEN "NaN" ELSE
  LET n == x[1] * 100
      q == n \div x[2]
      r == n % x[2]
      cents == IF 2 * r > x[2] \/ (2 * r = x[2] /\ q % 2 = 1) THEN q + 1 ELSE q
      frac == cents % 100
  IN  Itoa(cents \div 100) \o "." \o (IF frac < 10 THEN "0" ELSE "") \o Itoa(frac)

\* previousOutcome as the runner formats it for the next generation request
OutcomeText(tech, realism, final, category) ==
  "tech " \o Format2(tech) \o " realism " \o Format2(realism) \o " final " \o Format2(final)
    \o " test=" \o category

\* dedupeStrings: trimmed, empty entries and repeats dropped, then sorted
RECURSIVE DedupeFold(_, _)
DedupeFold(items, out) ==
  IF Len(items) = 0 THEN out
  ELSE LET item == TrimSpace(Head(items))
       IN  IF item = "" \/ item \in Range(out) THEN DedupeFold(Tail(items), out)
           ELSE DedupeFold(Tail(items), Append(out, item))

dedupeStrings(items) ==
  CHOOSE r \in {SortStrings(v) : v \in {DedupeFold(items, <<>>)}} : TRUE


(***************************************************************************)
(* Feedback packets (package feedback, feedback.go).                       *)
(***************************************************************************)
\* the intent signals InferIntents derives from the changed paths
PathIntents(lp) ==
  (IF Contains(lp, "_test.") \/ Contains(lp, "/test") \/ Contains(lp, "/tests")
   THEN {"tests/expectations updated"} ELSE {})
    \cup (IF HasSuffix(lp, ".md") \/ HasPrefix(lp, "docs/")
          THEN {"documentation behavior or guidance changed"} ELSE {})
    \cup (IF Contains(lp, "config") \/ Contains(lp, "settings")
          THEN {"configuration behavior changed"} ELSE {})

\* the rules InferIntents applies to the lower-cased patch: the tokens one
\* of which must occur, and the intent signal recorded
PatchRules ==
  { [tokens |-> <<"new file mode", "--- /dev/null">>, intent |-> "new component introduced"],
    [tokens |-> <<"deleted file mode", "+++ /dev/null">>,
     intent |-> "component removal or consolidation"],
    [tokens |-> <<"import ", " require(", " from ", " use ">>,
     intent |-> "dependency usage changed"],
    [tokens |-> <<"error", "err", "exception", "retry", "fallback", "panic">>,
     intent |-> "error handling logic differs"],
    [tokens |-> <<"log", "logger", "debug", "warn", "trace", "info">>,
     intent |-> "logging behavior differs"],
    [tokens |-> <<"http", "request", "response", "handler", "route", "endpoint">>,
     intent |-> "request/response behavior changed"],
    [tokens |-> <<"cache", "ttl", "evict", "memo">>, intent |-> "caching behavior changed"] }

hasAnyToken(content, tokens) == \E i \in DOMAIN tokens : Contains(content, tokens[i])

PatchIntents(patch) == {r.intent : r \in {x \in PatchRules : hasAnyToken(patch, x.tokens)}}

\* a finite set of strings as a sorted list (sort.Strings over the map keys)
RECURSIVE SortedStrings(_)
SortedStrings(S) ==
  IF S = {} THEN <<>>
  ELSE LET x == CHOOSE m \in S : \A o \in S : o = m \/ StrLess(m, o)
       IN  <<x>> \o SortedStrings(S \ {x})

\* InferIntents: nothing for a snapshot without patch and without files
InferIntents(snapshot) ==
  IF TrimSpace(snapshot.Patch) = "" /\ Len(snapshot.ChangedFiles) = 0 THEN <<>>
  ELSE SortedStrings(
         UNION {PathIntents(lp) : lp \in {ToLower(snapshot.ChangedFiles[i]) :
                                            i \in DOMAIN snapshot.ChangedFiles}}
           \cup UNION {PatchIntents(patch) : patch \in {ToLower(snapshot.Patch)}})

\* a variant of the gap list that reports only what the produced change lacks
summarizeIntentGapTargetOnly(targetIntents, producedIntents) ==
  LET out == [i \in DOMAIN SelectSeq(targetIntents, LAMBDA t : t \notin toSet(producedIntents)) |->
                "target indicates "
                  \o SelectSeq(targetIntents, LAMBDA t : t \notin toSet(producedIntents))[i]
                  \o " but produced change may not"]
  IN  IF Len(out) = 0 THEN <<"intent categories largely align">> ELSE out

\* summarizeIntentGap: one entry per target intent the produced change lacks,
\* then one per produced intent the target lacks, or the single marker
summarizeIntentGap(targetIntents, producedIntents) ==
  LET missing == SelectSeq(targetIntents, LAMBDA t : t \notin toSet(producedIntents))
      over == SelectSeq(producedIntents, LAMBDA p : p \notin toSet(targetIntents))
      out == [i \in DOMAIN missing |->
                "target indicates " \o missing[i] \o " but produced change may not"]
               \o [i \in DOMAIN over |-> "produced change may over-focus on " \o over[i]]
  IN  IF Len(out) = 0 THEN <<"intent categories largely align">> ELSE out

\* difference: the entries of left that are not in right, sorted
difference(left, right) == SortStrings(SelectSeq(left, LAMBDA l : l \notin toSet(right)))

\* limitSorted: a sorted copy cut to max entries, nothing for max <= 0
limitSorted(items, max) ==
  IF max <= 0 THEN <<>>
  ELSE LET copyItems == SortStrings(items)
       IN  IF Len(copyItems) > max THEN SubSeq(copyItems, 1, max) ELSE copyItems

\* buildLineCountSummaries: the first limit per-file scores, in their order
buildLineCountSummaries(perFile, limit) ==
  IF limit <= 0 THEN <<>>
  ELSE [idx \in 1..minInt(Len(perFile), limit) |->
          perFile[idx].Path \o " target(+" \o Itoa(perFile[idx].TargetLinesAdded) \o "/-"
            \o Itoa(perFile[idx].TargetLinesRemoved) \o ") produced(+"
            \o Itoa(perFile[idx].ProducedLinesAdded) \o "/-"
            \o Itoa(perFile[idx].ProducedLinesRemoved) \o ")"]

\* longest note kept by sanitizeOneLine
NoteLimit == 220

\* sanitizeOneLine: one line, tracker references stripped, single spaces
sanitizeOneLine(s) ==
  LET line == Join(Fields(stripTrackerRefs(Join(Split(s, "\n"), " "))), " ")
  IN  IF Len(line) > NoteLimit THEN SubSeq(line, 1, NoteLimit) ELSE line

BuildInitialPacket(iteration, target, commitMessage, maxPathRefs) ==
  [Iteration |-> iteration,
   TargetFilesChanged |-> Len(target.ChangedFiles),
   ProducedFilesChanged |-> 0,
   RepresentativePaths |-> limitSorted(target.ChangedFiles, maxPathRefs),
   LineCountSummaries |-> <<>>,
   MissingFiles |-> <<>>,
   UnexpectedFiles |-> <<>>,
   IntentGaps |-> <<>>,
   TargetIntentSignals |-> InferIntents(target),
   ProducedIntentSignals |-> <<>>,
   TestCategory |-> "",
   TechSummary |-> "",
   ExtraNotes |-> IF commitMessage # "" THEN <<sanitizeOneLine(commitMessage)>> ELSE <<>>]

BuildIterationPacket(iteration, target, produced, tech, testCategory, maxPaths) ==
  [Iteration |-> iteration,
   TargetFilesChanged |-> Len(target.ChangedFiles),
   ProducedFilesChanged |-> Len(produced.ChangedFiles),
   RepresentativePaths |-> limitSorted(target.ChangedFiles, maxPaths),
   LineCountSummaries |-> buildLineCountSummaries(tech.PerFile, maxPaths * 2),
   MissingFiles |-> limitSorted(difference(target.ChangedFiles, produced.ChangedFiles),
                                maxPaths * 2),
   UnexpectedFiles |-> limitSorted(difference(produced.ChangedFiles, target.ChangedFiles),
                                   maxPaths * 2),
   IntentGaps |-> summarizeIntentGap(InferIntents(target), InferIntents(produced)),
   TargetIntentSignals |-> InferIntents(target),
   ProducedIntentSignals |-> InferIntents(produced),
   TestCategory |-> testCategory,
   TechSummary |-> "file overlap " \o Format2(tech.FileJaccard) \o ", diff similarity "
                     \o Format2(tech.DiffSimilarity) \o ", line F1 " \o Format2(tech.LineF1),
   ExtraNotes |-> <<>>]

\* one line of PacketText for a list, left out when the list is empty
ListLine(label, items, sep) ==
  IF Len(items) > 0 THEN label \o ": " \o Join(items, sep) \o "\n" ELSE ""

\* PacketText: the packet as the text handed to the next generation request
PacketText(p) ==
  CHOOSE text \in {TrimSpace(t) : t \in {
    "Iteration: " \o Itoa(p.Iteration) \o "\n"
      \o "Target changed files: " \o Itoa(p.TargetFilesChanged) \o "\n"
      \o (IF p.ProducedFilesChanged > 0
          THEN "Produced changed files: " \o Itoa(p.ProducedFilesChanged) \o "\n" ELSE "")
      \o ListLine("Representative paths", p.RepresentativePaths, ", ")
      \o (IF p.TechSummary # "" THEN "Similarity summary: " \o p.TechSummary \o "\n" ELSE "")
      \o ListLine("Line count summary by path", p.LineCountSummaries, " | ")
      \o ListLine("Missing paths in produced change", p.MissingFiles, ", ")
      \o ListLine("Unexpected produced paths", p.UnexpectedFiles, ", ")
      \o ListLine("Target intent signals", p.TargetIntentSignals, "; ")
      \o ListLine("Produced intent signals", p.ProducedIntentSignals, "; ")
      \o ListLine("Intent gaps", p.IntentGaps, "; ")
      \o (IF p.TestCategory # "" THEN "Tests status category: " \o p.TestCategory \o "\n" ELSE "")
      \o Join([i \in DOMAIN p.ExtraNotes |-> "Note: " \o p.ExtraNotes[i] \o "\n"], "")}} : TRUE

\* most intent signals buildObjectiveAnchor names
AnchorIntents == 5

\* buildObjectiveAnchor: the objective line every generation request starts with
buildObjectiveAnchor(commitMessage, target) ==
  LET stripped == TrimSpace(stripTrackerRefs(commitMessage))
      msg == IF stripped = "" THEN "target commit objective unavailable" ELSE stripped
      all == InferIntents(target)
      intents == IF Len(all) > AnchorIntents THEN SubSeq(all, 1, AnchorIntents) ELSE all
  IN  IF Len(intents) = 0
      THEN "Objective anchor: infer the likely behavioral objective behind the target change and keep the prompt high-level."
      ELSE "Objective anchor from target metadata: " \o msg \o ". Intent signals: "
             \o Join(intents, "; ") \o "."

\* the entry Execute adds to the gaps when the coder run of the best attempt failed
CoderIssueGap == "coder execution had issues; refine acceptance criteria and constraints"

(***************************************************************************)
(* What the environment of a run can hand back.                            *)
(***************************************************************************)
\* prompts the spec-writer agent answers with: two that satisfy both
\* validators, one with an inline code marker, one without sections
TextA ==
  "# Context\nCurrently sessions drop on reconnect.\n# Desired Outcomes\nClients should resume sessions.\n# Constraints\nAvoid unrelated refactors.\n# Acceptance Criteria\nTests verify resume."

TextB ==
  "# Context\nHandshakes restart from scratch.\n# Goals\nReconnecting peers continue quickly.\n# Non-goals\nKeep the wire format.\n# Validation\nHandshake latency drops."

TextCode == TextA \o " Use " \o BT \o "resume" \o BT \o "."

TextFlat == "Please make sessions resume after reconnect."

\* a result of GenerateSpecCandidate: an error (the reply is no usable JSON
\* object) or the parsed candidate
ParseFailure == [err |-> "specwriter response is not valid JSON", CandidatePrompt |-> ""]

Reply(text) == [err |-> "", CandidatePrompt |-> text]

\* commit messages: one with a tracker reference in brackets, one that is
\* only a tracker reference, one with an inline code marker
MsgPlain == "Add session resume (#12)"

MsgOnlyRef == "#12"

MsgCode == "Add " \o BT \o "resume" \o BT \o " support"

\* output of git diff, git diff --name-only and git diff --numstat for the
\* target commit
TargetGit ==
  [patch |-> "diff --git a/a.go b/a.go\n--- a/a.go\n+++ b/a.go\n@@ -1,2 +1,3 @@\n-old line\n+new line one\n+new line two\ndiff --git a/b.go b/b.go\n--- a/b.go\n+++ b/b.go\n@@ -1 +1 @@\n+added in b\n",
   files |-> "a.go\nb.go\n",
   numstat |-> "2\t1\ta.go\n1\t0\tb.go\n"]

\* the same three outputs for the working copies a coder run can leave: no
\* change, part of the target change, the target change, an unrelated change
ProducedGit ==
  << [patch |-> "", files |-> "", numstat |-> ""],
     [patch |-> "diff --git a/a.go b/a.go\n--- a/a.go\n+++ b/a.go\n@@ -1,2 +1,3 @@\n-old line\n+new line one\n+new line two\n",
      files |-> "a.go\n",
      numstat |-> "2\t1\ta.go\n"],
     TargetGit,
     [patch |-> "diff --git a/c.go b/c.go\n--- a/c.go\n+++ b/c.go\n@@ -1 +1 @@\n+something else\n",
      files |-> "c.go\n",
      numstat |-> "1\t0\tc.go\n"] >>

SnapshotOf(g) == DiffSnapshot(g.patch, g.files, g.numstat)

\* SummarizeIntentGap keeps the trimmed, non-empty gaps without a code
\* marker, at most maxItems of them
RECURSIVE FilterGaps(_, _, _)
FilterGaps(gaps, maxItems, out) ==
  IF Len(gaps) = 0 \/ Len(out) >= maxItems THEN out
  ELSE LET g == TrimSpace(Head(gaps))
       IN  IF g = "" \/ Contains(g, BT) THEN FilterGaps(Tail(gaps), maxItems, out)
           ELSE FilterGaps(Tail(gaps), maxItems, Append(out, g))

\* the facts about one prompt the run uses: the verdicts of both validators
\* ("" = accepted), its heuristic realism and its token set
PromptFacts(text, c) ==
  [noCode |-> ValidateNoCodePrompt(text, c.MaxLength),
   structured |-> ValidateStructuredPrompt(text),
   realism |-> ScoreRealismHeuristic(text, RealismConfig(c)),
   tokens |-> toTokenSet(text)]

\* a produced snapshot and its technical score against the target
ProducedFacts(target, snapshot) ==
  [snapshot |-> snapshot, tech |-> ScoreTechSimilarity(target, snapshot)]

\* the same with the feedback packet of the pair, built for iteration 0 and
\* no test category (PacketOf fills both in)
ProducedFeedback(target, produced, c) ==
  CHOOSE r \in {[snapshot |-> f.snapshot, tech |-> f.tech,
                  packet |-> BuildIterationPacket(0, target, f.snapshot, f.tech, "",
                                                  c.MaxPathRefs)] :
                  f \in {ProducedFacts(target, produced)}} : TRUE

\* the prompts a run can meet: the agent's and, when it is produced, the seed
PromptsIn(replies, seed) ==
  {r.CandidatePrompt : r \in {x \in replies : x.err = ""}} \cup (IF seed[1] THEN {seed[2]} ELSE {})

EnvOf(sc, seed, target) ==
  [commitMessage |-> sc.commitMessage,
   setup |-> sc.setup,
   replies |-> sc.replies,
   worktree |-> sc.worktree,
   coder |-> sc.coder,
   snapshots |-> sc.snapshots,
   judge |-> sc.judge,
   tests |-> sc.tests,
   patchWrite |-> sc.patchWrite,
   remove |-> sc.remove,
   cancel |-> sc.cancel,
   gaps |-> sc.gaps,
   finalWrite |-> sc.finalWrite,
   seed |-> seed,
   prompts |-> [t \in PromptsIn(sc.replies, seed) |-> PromptFacts(t, sc.cfg)],
   target |-> target,
   produced |-> [i \in DOMAIN ProducedGit |->
                   ProducedFeedback(target, SnapshotOf(ProducedGit[i]), sc.cfg)],
   objectiveAnchor |-> buildObjectiveAnchor(sc.commitMessage, target),
   initialPacket |-> BuildInitialPacket(0, target, sc.commitMessage, sc.cfg.MaxPathRefs)]

\* One environment: the outcomes each external call can have in the run
\* (sc), and, worked out once, the values of the pure functions on the
\* texts and diffs of that run.
MakeEnv(sc) == EnvOf(sc, SeedPrompt(sc.commitMessage, sc.cfg.MaxLength), SnapshotOf(TargetGit))

(***************************************************************************)
(* Runs explored.  A scenario fixes the configuration and, for every       *)
(* external call, the outcomes the environment may choose from.            *)
(***************************************************************************)
\* iterations allowed in the longest runs explored
MaxItersBound == 5

\* generation slots per iteration in the runs that explore generation
MaxSlots == 2

\* the files Execute writes after the loop, in order
FinalFiles == <<"best_prompt.md", "best.patch", "run_log.json", "metrics.json">>

\* the steps of Execute before the iteration loop, in order
SetupSteps ==
  << "create runs dir", "prepare base repo", "resolve commit", "collect target patch",
     "write target.patch", "create copilot manager", "create spec writer session" >>

StepNo(f) == CHOOSE i \in DOMAIN SetupSteps : SetupSteps[i] = f

JudgeFailure == [err |-> "judge failed", Score |-> RZero]

JudgeReply(raw) == [err |-> "", Score |-> raw]

GapFailure == [err |-> "gap summary failed", Gaps |-> <<>>]

GapReply(gaps) == [err |-> "", Gaps |-> gaps]

TestPass == [Ran |-> TRUE, Passed |-> TRUE, Category |-> "pass"]

TestNotRun == [Ran |-> FALSE, Passed |-> TRUE, Category |-> "not_run"]

TestFailed(category) == [Ran |-> TRUE, Passed |-> FALSE, Category |-> category]

BaseCfg ==
  [MaxIters |-> 2, Threshold |-> R(9, 10), TimeoutSeconds |-> 600, KeepRuns |-> FALSE,
   Alpha |-> R(3, 4), MaxPathRefs |-> 3, MaxIdentifiers |-> 25, MaxLength |-> 0,
   CandidatesPerIter |-> 1, CoderRunsPerIter |-> 1]

\* a run in which every external call has one, successful, outcome
Quiet ==
  [cfg |-> BaseCfg, commitMessage |-> MsgPlain, setup |-> {""}, replies |-> {Reply(TextA)},
   worktree |-> {TRUE}, coder |-> {""}, snapshots |-> {2}, judge |-> {JudgeFailure},
   tests |-> {TestPass}, patchWrite |-> {TRUE}, remove |-> {TRUE}, gaps |-> {GapFailure}, finalWrite |-> {""},
   cancel |-> FALSE]

\* outcomes of a coder run: success, a failure, the per-attempt timeout
CoderFailed == "coder session failed"

CoderTimeout == "context deadline exceeded"

Scenarios ==
  { \* long runs: one slot per iteration, three produced diffs to choose from
    [Quiet EXCEPT !.cfg.MaxIters = MaxItersBound, !.cfg.Threshold = ROne,
                  !.snapshots = {1, 2, 3}],
    \* the infrastructure fails before the first iteration
    [Quiet EXCEPT !.setup = Range(SetupSteps)],
    \* final scores below, at and above the threshold
    [Quiet EXCEPT !.cfg.MaxIters = 3, !.cfg.Alpha = R(1, 2), !.cfg.Threshold = R(47, 50),
                  !.snapshots = {1, 3}, !.judge = {JudgeFailure, JudgeReply(ROne)}],
    \* generation: every kind of reply in every slot
    [Quiet EXCEPT !.cfg.MaxIters = 1, !.cfg.CandidatesPerIter = MaxSlots,
                  !.replies = {ParseFailure, Reply(TextA), Reply(TextB), Reply(TextCode),
                               Reply(TextFlat)}],
    \* no seed (nothing left of the commit message), replies that may all fail
    [Quiet EXCEPT !.commitMessage = MsgOnlyRef, !.cfg.CandidatesPerIter = 2,
                  !.replies = {ParseFailure, Reply(TextA)}],
    \* no seed (the commit message carries a code marker)
    [Quiet EXCEPT !.commitMessage = MsgCode, !.replies = {Reply(TextFlat), Reply(TextB)}],
    \* no seed (MaxLength cuts its last sections off)
    [Quiet EXCEPT !.cfg.MaxLength = 300, !.cfg.MaxIters = 1,
                  !.replies = {Reply(TextCode), Reply(TextA)}],
    \* execution: two ranked drafts, the judge answers in and out of range
    [Quiet EXCEPT !.cfg.MaxIters = 1, !.cfg.CandidatesPerIter = 2, !.cfg.CoderRunsPerIter = 2,
                  !.replies = {Reply(TextA), Reply(TextB)},
                  !.snapshots = {1, 2},
                  !.judge = {JudgeFailure, JudgeReply(R(1, 2)), JudgeReply(R(3, 2)),
                             JudgeReply(R(0 - 1, 2))}],
    \* execution: the coder fails or times out, tests pass, fail or do not exist
    [Quiet EXCEPT !.cfg.MaxIters = 1, !.cfg.CandidatesPerIter = 2, !.cfg.CoderRunsPerIter = 2,
                  !.coder = {"", CoderFailed, CoderTimeout},
                  !.snapshots = {1, 4},
                  !.tests = {TestPass, TestNotRun, TestFailed("unit-test")},
                  !.gaps = {GapFailure, GapReply(<<"retry is missing", " ", "retry is missing">>)}],
    \* failures of git and of the file system, working copies removed
    [Quiet EXCEPT !.cfg.CandidatesPerIter = 2, !.cfg.CoderRunsPerIter = 2,
                  !.worktree = BOOLEAN, !.snapshots = {0, 3}, !.patchWrite = BOOLEAN,
                  !.remove = BOOLEAN, !.finalWrite = {""} \cup Range(FinalFiles)],
    \* working copies kept
    [Quiet EXCEPT !.cfg.KeepRuns = TRUE, !.cfg.CandidatesPerIter = 2,
                  !.cfg.CoderRunsPerIter = 2, !.snapshots = {0, 2}],
    \* the caller of Execute cancels the context at some point of the run
    [Quiet EXCEPT !.cancel = TRUE, !.snapshots = {2, 3}] }

VARIABLES
  cfg,             \* Runner.cfg
  env,             \* the environment of the run (MakeEnv)
  pc,              \* where Execute stands: the next blocking call, "done" or "failed"
  err,             \* the error Execute returned, "" while it has returned none
  iter,            \* loop variable of Execute, 0 before the loop
  out,             \* generateCandidatePool: drafts of the iteration so far
  requests,        \* GenerateSpecCandidate calls issued per slot of the iteration
  attempt,         \* generateValidCandidate: loop variable
  violation,       \* generateValidCandidate: reason carried by the next request
  lastErr,         \* generateValidCandidate: last error
  call,            \* the last GenerateSpecCandidate call: the request and the reply
  validDrafts,     \* the valid drafts of the iteration, ranked
  promptHistory,
  rank,            \* loop variable of the execution loop, 0-based
  cur,             \* the execution attempt under way
  attempts,        \* attempts of the iteration so far
  best,            \* bestState
  noImprovement,
  stoppedReason,
  previousPrompt,
  previousOutcome,
  llmGap,          \* result of the last SummarizeIntentGap call
  feedbackText,    \* the rendered packet the next generation requests carry
  files,           \* contents of the result files written after the loop
  runLog,          \* RunLog.Iterations
  worktrees,       \* working copies that exist: their path and the commit checked out
  artifacts,       \* files written under the artifacts directory
  setupDone,       \* how many of the steps of Execute before the loop have succeeded
  ctx              \* the context passed to Execute: "live", "fired" (cancelled while the
                   \* blocking call at pc is in progress) or "done" (cancelled before the
                   \* call at pc is issued)

vars ==
  << cfg, env, pc, err, iter, out, requests, attempt, violation, lastErr, call,
     validDrafts,
     promptHistory, rank, cur, attempts, best, noImprovement, stoppedReason,
     previousPrompt, previousOutcome, llmGap, feedbackText, files, runLog, worktrees, artifacts,
     setupDone,
     ctx >>

genVars == <<out, requests, attempt, violation, lastErr, call>>

searchVars ==
  <<best, noImprovement, stoppedReason, previousPrompt, previousOutcome, llmGap, feedbackText,
    files, runLog>>

NoRealism == [HeuristicScore |-> RZero, JudgeScore |-> RZero, Score |-> RZero, Reasons |-> <<>>]

\* no request issued yet
NoCall ==
  [Iteration |-> 0, slot |-> 0, FeedbackText |-> "", Style |-> "", ViolationReason |-> "",
   reply |-> [err |-> "", CandidatePrompt |-> ""]]

NoAttempt ==
  [coderErr |-> "", produced |-> 0, hasJudge |-> FALSE, realism |-> NoRealism,
   FinalScore |-> RZero, TestResult |-> TestNotRun]

Init ==
  /\ \E sc \in Scenarios :
       /\ ConfigValidate(sc.cfg) = ""
       /\ cfg = sc.cfg
       /\ env = MakeEnv(sc)
  /\ pc = "setup"
  /\ err = ""
  /\ iter = 0
  /\ out = <<>>
  /\ requests = <<>>
  /\ attempt = 0
  /\ violation = ""
  /\ lastErr = ""
  /\ call = NoCall
  /\ validDrafts = <<>>
  /\ promptHistory = <<>>
  /\ rank = 0
  /\ cur = NoAttempt
  /\ attempts = <<>>
  /\ best = [iteration |-> 0, prompt |-> "", patch |-> "", tech |-> RZero, realism |-> RZero,
             final |-> RInt(0 - 1)]
  /\ noImprovement = 0
  /\ stoppedReason = "max-iters reached"
  /\ previousPrompt = ""
  /\ previousOutcome = ""
  /\ llmGap = GapFailure
  /\ feedbackText = ""
  /\ files = EmptyMap
  /\ runLog = <<>>
  /\ worktrees = {}
  /\ artifacts = {}
  /\ setupDone = 0
  /\ ctx = "live"

(***************************************************************************)
(* The context of the run.  Execute never looks at ctx itself; a call that *)
(* takes a cancelled context returns an error, and a call in progress when *)
(* the context is cancelled may still return what it would have returned.  *)
(***************************************************************************)
\* ctx after the blocking call at pc has returned
Returned == IF ctx = "live" THEN "live" ELSE "done"

\* outcomes of a call that takes the context: normal are the outcomes the
\* environment offers, failed the ones of a cancelled context
Offered(normal, failed) ==
  IF ctx = "live" THEN normal ELSE IF ctx = "fired" THEN normal \cup failed ELSE failed

\* the steps before the loop that take the context
CtxSteps == Range(SetupSteps) \ {"create runs dir", "write target.patch"}

ReplyCanceled == [err |-> "specwriter send: context canceled", CandidatePrompt |-> ""]

CoderCanceled == "coder send: context canceled"

\* exec.CommandContext with a cancelled context: the test command fails with
\* no output; no command is run when no gate file exists
TestsCanceled ==
  {TestFailed("test-failure") : t \in {x \in env.tests : x.Ran}} \cup (env.tests \cap {TestNotRun})

\* the caller cancels the context
Cancel ==
  /\ env.cancel
  /\ ctx = "live"
  /\ pc \notin {"done", "failed"}
  /\ ctx' = "fired"
  /\ UNCHANGED <<cfg, env, pc, err, iter, validDrafts, promptHistory, rank, cur, attempts,
                 worktrees, artifacts, setupDone>>
  /\ UNCHANGED genVars
  /\ UNCHANGED searchVars

\* a variant of the step below that carries on when the target diff cannot
\* be computed
SetupIgnoringDiffFailure ==
  /\ pc = "setup"
  /\ ctx' = Returned
  /\ \E f \in Offered(env.setup, CtxSteps) :
       IF f \in {"", "collect target patch"}
       THEN /\ pc' = "generate"
            /\ iter' = 1
            /\ setupDone' = IF f = "" THEN Len(SetupSteps) ELSE StepNo(f) - 1
            /\ artifacts' = {"target.patch"}
            /\ err' = ""
            /\ feedbackText' = PacketText(env.initialPacket)
       ELSE /\ pc' = "failed"
            /\ iter' = iter
            /\ setupDone' = StepNo(f) - 1
            /\ artifacts' = IF setupDone' >= StepNo("write target.patch")
                            THEN {"target.patch"} ELSE {}
            /\ err' = f
            /\ feedbackText' = feedbackText
  /\ UNCHANGED <<cfg, env, validDrafts, promptHistory, rank, cur, attempts, worktrees>>
  /\ UNCHANGED genVars
  /\ UNCHANGED <<best, noImprovement, stoppedReason, previousPrompt, previousOutcome, llmGap,
                 files, runLog>>

\* Execute up to the loop: layout, base repository, commit, target diff,
\* target.patch, agent manager and session; the first failing step ends the run
Setup ==
  /\ pc = "setup"
  /\ ctx' = Returned
  /\ \E f \in Offered(env.setup, CtxSteps) :
       IF f = ""
       THEN /\ pc' = "generate"
            /\ iter' = 1
            /\ setupDone' = Len(SetupSteps)
            /\ artifacts' = {"target.patch"}
            /\ err' = ""
            /\ feedbackText' = PacketText(env.initialPacket)
       ELSE /\ pc' = "failed"
            /\ iter' = iter
            /\ setupDone' = StepNo(f) - 1
            /\ artifacts' = IF setupDone' >= StepNo("write target.patch")
                            THEN {"target.patch"} ELSE {}
            /\ err' = f
            /\ feedbackText' = feedbackText
  /\ UNCHANGED <<cfg, env, validDrafts, promptHistory, rank, cur, attempts, worktrees>>
  /\ UNCHANGED genVars
  /\ UNCHANGED <<best, noImprovement, stoppedReason, previousPrompt, previousOutcome, llmGap,
                 files, runLog>>

(***************************************************************************)
(* Candidate generation.                                                   *)
(***************************************************************************)
Facts(text) == env.prompts[text]

\* a variant that compares the text with the oldest prompt of the history only
NoveltyInOldest(text, history) ==
  NoveltyOfTokens(Facts(text).tokens,
                  IF history = <<>> THEN <<>> ELSE <<Facts(history[1]).tokens>>)

\* noveltyScore(text, promptHistory), on the token sets worked out in env
NoveltyIn(text, history) ==
  NoveltyOfTokens(Facts(text).tokens, [i \in DOMAIN history |-> Facts(history[i]).tokens])

\* pre := 0.8*realism.HeuristicScore + 0.2*novelty
PreScoreOf(heuristic, novelty) == RAdd(RMul(R(8, 10), heuristic), RMul(R(2, 10), novelty))

\* a variant of the pass below that leaves the structural check out
ReplyVerdictNoStructure(reply) ==
  IF reply.err # ""
  THEN [lastErr |-> reply.err,
        violation |-> "output must be strict JSON with candidatePrompt/rationale/scopeHints"]
  ELSE IF Facts(reply.CandidatePrompt).noCode # ""
  THEN [lastErr |-> Facts(reply.CandidatePrompt).noCode,
        violation |-> "no-code constraint violation: " \o Facts(reply.CandidatePrompt).noCode]
  ELSE [lastErr |-> "", violation |-> ""]

\* generateValidCandidate, one pass of its loop after the agent replied:
\* [lastErr, violation] of a rejected reply, violation "" for an accepted one
ReplyVerdict(reply) ==
  IF reply.err # ""
  THEN [lastErr |-> reply.err,
        violation |-> "output must be strict JSON with candidatePrompt/rationale/scopeHints"]
  ELSE IF Facts(reply.CandidatePrompt).noCode # ""
  THEN [lastErr |-> Facts(reply.CandidatePrompt).noCode,
        violation |-> "no-code constraint violation: " \o Facts(reply.CandidatePrompt).noCode]
  ELSE IF Facts(reply.CandidatePrompt).structured # ""
  THEN [lastErr |-> Facts(reply.CandidatePrompt).structured,
        violation |-> "structured format violation: " \o Facts(reply.CandidatePrompt).structured]
  ELSE [lastErr |-> "", violation |-> ""]

\* the draft generateCandidatePool records for a slot whose generation failed
DroppedDraft(idx, style, retries, lastError) ==
  [Index |-> idx, Style |-> style, ValidationRetries |-> retries,
   GenerationError |-> "failed after " \o Itoa(maxAttempts) \o " attempts: " \o lastError,
   CandidatePrompt |-> "", PreRealism |-> RZero, Novelty |-> RZero, PreScore |-> RZero,
   valid |-> FALSE]

\* the draft recorded for a validated prompt
ValidDraft(idx, style, retries, prompt, history) ==
  [Index |-> idx, Style |-> style, ValidationRetries |-> retries, GenerationError |-> "",
   CandidatePrompt |-> prompt,
   PreRealism |-> Facts(prompt).realism.HeuristicScore,
   Novelty |-> NoveltyIn(prompt, history),
   PreScore |-> PreScoreOf(Facts(prompt).realism.HeuristicScore, NoveltyIn(prompt, history)),
   valid |-> TRUE]

\* a variant of the step below that compares the seed with the drafts of its
\* own pool as well
WithSeedComparedToPool(drafts, history) ==
  IF env.seed[1]
  THEN Append(drafts, ValidDraft(SeedIndex, SeedStyle, 0, env.seed[2],
                                 history \o [i \in DOMAIN drafts |-> drafts[i].CandidatePrompt]))
  ELSE drafts

\* makeCommitSeedCandidate appended by generateCandidatePool when it is ok
WithSeed(drafts, history) ==
  IF env.seed[1] THEN Append(drafts, ValidDraft(SeedIndex, SeedStyle, 0, env.seed[2], history))
  ELSE drafts

ValidOf(drafts) == SelectSeq(drafts, LAMBDA d : d.valid)

PromptsOf(drafts) == [i \in DOMAIN drafts |-> drafts[i].CandidatePrompt]

\* sort.Slice with less(i, j) = PreScore[i] > PreScore[j].  Up to
\* InsertionSortLimit elements the library sorts by insertion: an element
\* moves left past the neighbours it is strictly greater than.
InsertionSortLimit == 12

\* a variant of the insertion below that sorts by ascending PreScore
RECURSIVE InsertDraftAscending(_, _)
InsertDraftAscending(q, x) ==
  IF Len(q) > 0 /\ RLt(x.PreScore, q[Len(q)].PreScore)
  THEN Append(InsertDraftAscending(SubSeq(q, 1, Len(q) - 1), x), q[Len(q)])
  ELSE Append(q, x)

RECURSIVE InsertDraft(_, _)
InsertDraft(q, x) ==
  IF Len(q) > 0 /\ RGt(x.PreScore, q[Len(q)].PreScore)
  THEN Append(InsertDraft(SubSeq(q, 1, Len(q) - 1), x), q[Len(q)])
  ELSE Append(q, x)

RECURSIVE InsertionSort(_)
InsertionSort(q) ==
  IF Len(q) = 0 THEN q
  ELSE CHOOSE r \in {InsertDraft(sorted, q[Len(q)]) :
                       sorted \in {InsertionSort(SubSeq(q, 1, Len(q) - 1))}} : TRUE

\* the arrangements of a set of positions in every order
RECURSIVE Arrangements(_)
Arrangements(S) ==
  IF S = {} THEN {<<>>}
  ELSE UNION {{<<i>> \o rest : rest \in Arrangements(S \ {i})} : i \in S}

\* positions of q in descending PreScore, ties in every order
RECURSIVE SortedOrders(_, _)
SortedOrders(q, left) ==
  IF left = {} THEN {<<>>}
  ELSE LET top == {i \in left : \A j \in left : RGe(q[i].PreScore, q[j].PreScore)}
       IN  {a \o rest : a \in Arrangements(top), rest \in SortedOrders(q, left \ top)}

\* what sort.Slice can leave in the slice: longer slices are sorted by an
\* algorithm that does not keep the order of equal elements
SortOutcomes(q) ==
  IF Len(q) <= InsertionSortLimit THEN {InsertionSort(q)}
  ELSE {[i \in DOMAIN q |-> q[o[i]]] : o \in SortedOrders(q, DOMAIN q)}

\* a variant under which one dropped slot is enough to fail the run
PoolDoneStrict(drafts) ==
  IF \E i \in DOMAIN drafts : ~drafts[i].valid
  THEN /\ pc' = "failed"
       /\ err' = "generate candidates for iteration " \o Itoa(iter)
                   \o ": no valid candidates generated"
       /\ UNCHANGED <<validDrafts, promptHistory>>
  ELSE /\ pc' = "worktree"
       /\ err' = err
       /\ validDrafts' \in SortOutcomes(ValidOf(drafts))
       /\ promptHistory' = promptHistory \o PromptsOf(ValidOf(drafts))

\* Execute after generateCandidatePool returned drafts: the run fails on an
\* empty pool, otherwise the valid drafts are ranked and the first is executed
PoolDone(drafts) ==
  IF ValidOf(drafts) = <<>>
  THEN /\ pc' = "failed"
       /\ err' = "generate candidates for iteration " \o Itoa(iter)
                   \o ": no valid candidates generated"
       /\ UNCHANGED <<validDrafts, promptHistory>>
  ELSE /\ pc' = "worktree"
       /\ err' = err
       /\ validDrafts' \in SortOutcomes(ValidOf(drafts))
       /\ promptHistory' = promptHistory \o PromptsOf(ValidOf(drafts))

\* a variant of the step below that keeps the violation reason of the slot
SlotDoneKeepingViolation(d) ==
  /\ attempt' = 0
  /\ violation' = violation
  /\ lastErr' = ""
  /\ IF Len(out) + 1 = cfg.CandidatesPerIter
     THEN \E pool \in {WithSeed(Append(out, d), promptHistory)} :
            /\ out' = pool
            /\ PoolDone(pool)
     ELSE /\ out' = Append(out, d)
          /\ UNCHANGED <<pc, err, validDrafts, promptHistory>>

\* the state of generation after the current slot ended with draft d
SlotDone(d) ==
  /\ attempt' = 0
  /\ violation' = ""
  /\ lastErr' = ""
  /\ IF Len(out) + 1 = cfg.CandidatesPerIter
     THEN \E pool \in {WithSeed(Append(out, d), promptHistory)} :
            /\ out' = pool
            /\ PoolDone(pool)
     ELSE /\ out' = Append(out, d)
          /\ UNCHANGED <<pc, err, validDrafts, promptHistory>>

\* one GenerateSpecCandidate call of generateValidCandidate and what follows
\* until the next blocking call
GenerateSpecCandidate ==
  /\ pc = "generate"
  /\ ctx' = Returned
  /\ \E reply \in Offered(env.replies, {ReplyCanceled}) :
       LET idx == Len(out)
           style == candidateStyles(cfg.CandidatesPerIter)[idx + 1]
           v == ReplyVerdict(reply)
           sent == IF Len(requests) > idx THEN requests[idx + 1] ELSE 0
       IN  /\ requests' = Append(SubSeq(requests, 1, idx), sent + 1)
           /\ call' = [Iteration |-> iter, slot |-> idx,
                       FeedbackText |-> env.objectiveAnchor \o "\n\n" \o feedbackText,
                       Style |-> style, ViolationReason |-> violation, reply |-> reply]
           /\ IF v.violation = ""
              THEN \E prompt \in {TrimSpace(reply.CandidatePrompt)} :
                     \E d \in {ValidDraft(idx, style, attempt, prompt, promptHistory)} :
                       SlotDone(d)
              ELSE IF attempt + 1 < maxAttempts
              THEN /\ attempt' = attempt + 1
                   /\ violation' = v.violation
                   /\ lastErr' = v.lastErr
                   /\ UNCHANGED <<out, pc, err, validDrafts, promptHistory>>
              ELSE \E d \in {DroppedDraft(idx, style, maxAttempts, v.lastErr)} : SlotDone(d)
  /\ rank' = 0
  /\ attempts' = <<>>
  /\ UNCHANGED <<cfg, env, setupDone, iter, cur, worktrees, artifacts>>
  /\ UNCHANGED searchVars

(***************************************************************************)
(* Execution of the ranked drafts.                                         *)
(***************************************************************************)
\* fmt %0<width>d
RECURSIVE Pad(_, _)
Pad(n, width) == IF Len(Itoa(n)) >= width THEN Itoa(n) ELSE "0" \o Pad(n, width - 1)

\* name of the working copy and of the patch file of an attempt
RunName(i, cand) == "iter-" \o Pad(i, 3) \o "-cand-" \o Pad(cand, 2)

\* a variant of the budget below under which every valid draft is executed
coderBudgetAll == Len(validDrafts)

\* len(pool) capped by CoderRunsPerIter: the drafts executed in the iteration
coderBudget == minInt(cfg.CoderRunsPerIter, Len(validDrafts))

\* the working copies of worktrees at the path name
At(name) == {w \in worktrees : w.runPath = name}

\* a variant of the cleanup below that removes nothing
CleanupNever(name) == worktrees' = worktrees

\* git.RemoveWorktree as cleanup; when the command fails the copy stays
Cleanup(name) ==
  IF cfg.KeepRuns THEN worktrees' = worktrees
  ELSE \E removed \in Offered(env.remove, {FALSE}) :
         worktrees' = IF removed THEN worktrees \ At(name) ELSE worktrees

\* git.CreateWorktree(ctx, baseRepo, runPath, commitInfo.ParentSHA): a stale copy
\* at the path is removed first
CreateWorktree ==
  /\ pc = "worktree"
  /\ ctx' = Returned
  /\ \E ok \in Offered(env.worktree, {FALSE}) :
       IF ok
       THEN /\ worktrees' = (worktrees \ At(RunName(iter, rank + 1)))
                             \cup {[runPath |-> RunName(iter, rank + 1), commit |-> "ParentSHA"]}
            /\ pc' = "coder"
            /\ err' = err
       ELSE /\ worktrees' = worktrees
            /\ pc' = "failed"
            /\ err' = "create worktree for iteration " \o Itoa(iter) \o " candidate "
                        \o Itoa(rank + 1)
  /\ cur' = NoAttempt
  /\ UNCHANGED <<cfg, env, setupDone, iter, validDrafts, promptHistory, rank, attempts, artifacts>>
  /\ UNCHANGED genVars
  /\ UNCHANGED searchVars

\* a variant of the step below in which an error of the coder ends the run
RunCoderOrFail ==
  /\ pc = "coder"
  /\ ctx' = Returned
  /\ \E e \in Offered(env.coder, {CoderCanceled}) :
       /\ cur' = [cur EXCEPT !.coderErr = e]
       /\ pc' = IF e = "" THEN "snapshot" ELSE "failed"
       /\ err' = IF e = "" THEN err ELSE "run coder: " \o e
  /\ UNCHANGED <<cfg, env, setupDone, iter, validDrafts, promptHistory, rank, attempts, worktrees,
                 artifacts>>
  /\ UNCHANGED genVars
  /\ UNCHANGED searchVars

\* manager.RunCoder under the per-attempt timeout; an error is kept, not returned
RunCoder ==
  /\ pc = "coder"
  /\ ctx' = Returned
  /\ \E e \in Offered(env.coder, {CoderCanceled}) : cur' = [cur EXCEPT !.coderErr = e]
  /\ pc' = "snapshot"
  /\ UNCHANGED <<cfg, env, setupDone, err, iter, validDrafts, promptHistory, rank, attempts, worktrees,
                 artifacts>>
  /\ UNCHANGED genVars
  /\ UNCHANGED searchVars

\* git.SnapshotWorktree, then the technical score and the heuristic realism
SnapshotWorktree ==
  /\ pc = "snapshot"
  /\ ctx' = Returned
  /\ \E s \in Offered(env.snapshots, {0}) :
       IF s = 0
       THEN /\ Cleanup(RunName(iter, rank + 1))
            /\ pc' = "failed"
            /\ err' = "snapshot produced patch for iteration " \o Itoa(iter) \o " candidate "
                        \o Itoa(rank + 1)
            /\ cur' = cur
       ELSE /\ worktrees' = worktrees
            /\ pc' = "judge"
            /\ err' = err
            /\ cur' = [cur EXCEPT !.produced = s,
                                  !.realism = Facts(validDrafts[rank + 1].CandidatePrompt).realism]
  /\ UNCHANGED <<cfg, env, setupDone, iter, validDrafts, promptHistory, rank, attempts, artifacts>>
  /\ UNCHANGED genVars
  /\ UNCHANGED searchVars

\* scoring.ScoreTechSimilarity(target, produced) of the attempt under way
TechOf(produced) == env.produced[produced].tech

\* a variant of the final score that adds the realism score unweighted
FinalScoreUnweighted(alpha, tech, realism) == RAdd(RMul(alpha, tech), realism)

\* finalScore := Alpha*tech.Score + (1-Alpha)*realism.Score
FinalScoreOf(alpha, tech, realism) == RAdd(RMul(alpha, tech), RMul(RSub(ROne, alpha), realism))

\* the realism of the attempt once the judge call returned j
JudgedRealism(heuristic, j) ==
  LET hasJudge == j.err = ""
      judgeScore == IF hasJudge THEN JudgeScoreOf(j.Score) ELSE RZero
  IN  [heuristic EXCEPT !.JudgeScore = judgeScore,
                        !.Score = CombineRealism(heuristic.HeuristicScore, judgeScore, hasJudge)]

\* manager.JudgeRealism, then the final score; a failed coder run skips the tests
JudgeRealism ==
  /\ pc = "judge"
  /\ ctx' = Returned
  /\ \E j \in Offered(env.judge, {JudgeFailure}) :
       LET realism == JudgedRealism(cur.realism, j)
       IN  cur' = [cur EXCEPT !.hasJudge = j.err = "",
                              !.realism = realism,
                              !.FinalScore = FinalScoreOf(cfg.Alpha, TechOf(cur.produced).Score,
                                                          realism.Score),
                              !.TestResult = TestNotRun]
  /\ pc' = IF cur.coderErr = "" THEN "tests" ELSE "patch"
  /\ UNCHANGED <<cfg, env, setupDone, err, iter, validDrafts, promptHistory, rank, attempts, worktrees,
                 artifacts>>
  /\ UNCHANGED genVars
  /\ UNCHANGED searchVars

RunBestEffortTests ==
  /\ pc = "tests"
  /\ ctx' = Returned
  /\ \E t \in Offered(env.tests, TestsCanceled) : cur' = [cur EXCEPT !.TestResult = t]
  /\ pc' = "patch"
  /\ UNCHANGED <<cfg, env, setupDone, err, iter, validDrafts, promptHistory, rank, attempts, worktrees,
                 artifacts>>
  /\ UNCHANGED genVars
  /\ UNCHANGED searchVars

\* the attempt appended to attempts: its log and the produced snapshot
\* (produced is the position of the snapshot in env.produced)
AttemptOf(draft, c, patchPath) ==
  [CandidateIndex |-> draft.Index, CandidateStyle |-> draft.Style,
   CandidatePrompt |-> draft.CandidatePrompt, CoderError |-> c.coderErr,
   Tech |-> TechOf(c.produced), Realism |-> c.realism, FinalScore |-> c.FinalScore,
   TestResult |-> c.TestResult, ProducedPatchPath |-> patchPath, produced |-> c.produced,
   hasJudge |-> c.hasJudge]

\* the patch of the attempt is written, the attempt recorded, the working
\* copy removed; then the next draft, or the end of the execution loop
WriteIterationPatch ==
  /\ pc = "patch"
  /\ ctx' = Returned
  /\ \E ok \in env.patchWrite :
       IF ok
       THEN /\ artifacts' = artifacts \cup {RunName(iter, rank + 1) \o ".patch"}
            /\ attempts' = Append(attempts, AttemptOf(validDrafts[rank + 1], cur,
                                                      RunName(iter, rank + 1) \o ".patch"))
            /\ Cleanup(RunName(iter, rank + 1))
            /\ rank' = rank + 1
            /\ pc' = IF rank + 1 < coderBudget THEN "worktree" ELSE "gap"
            /\ err' = err
       ELSE /\ pc' = "failed"
            /\ err' = "write iteration patch"
            /\ UNCHANGED <<artifacts, attempts, worktrees, rank>>
  /\ UNCHANGED <<cfg, env, setupDone, iter, validDrafts, promptHistory, cur>>
  /\ UNCHANGED genVars
  /\ UNCHANGED searchVars


(***************************************************************************)
(* End of an iteration: the best attempt, the global best, the stop rules. *)
(***************************************************************************)
\* a variant of the scan below in which a later attempt of equal score wins
RECURSIVE BestAttemptFromLast(_, _, _)
BestAttemptFromLast(as, i, bestIdx) ==
  IF i > Len(as) THEN bestIdx
  ELSE BestAttemptFromLast(as, i + 1,
                           IF RGe(as[i].FinalScore, as[bestIdx].FinalScore) THEN i ELSE bestIdx)

\* bestAttemptIdx (1-based here): a later attempt replaces the choice only
\* with a strictly greater final score
RECURSIVE BestAttemptFrom(_, _, _)
BestAttemptFrom(as, i, bestIdx) ==
  IF i > Len(as) THEN bestIdx
  ELSE BestAttemptFrom(as, i + 1,
                       IF RGt(as[i].FinalScore, as[bestIdx].FinalScore) THEN i ELSE bestIdx)

BestAttemptIdx(as) == BestAttemptFrom(as, 1, 1)

\* a variant of the update test under which a tie replaces the global best
ImprovesOrTies(score, b) == RGe(score, b.final)

\* the test of the global-best update
Improves(score, b) == RGt(score, b.final)

\* a variant of the first stop rule under which equality does not count
ThresholdExceeded(score) == RGt(score, cfg.Threshold)

\* the first stop rule
ThresholdReached(score) == RGe(score, cfg.Threshold)

\* a variant of the second stop rule that waits for one more iteration
NoImprovementStopLate(n) == n > NoImprovementLimit

\* the second stop rule
NoImprovementStop(n) == n >= NoImprovementLimit

\* a variant of the loop condition that runs one iteration more
MoreIterationsOffByOne(i) == i <= cfg.MaxIters

\* the loop condition after iteration i
MoreIterations(i) == i < cfg.MaxIters

\* bestState taken from attempt a in iteration i
BestFrom(i, a) ==
  [iteration |-> i, prompt |-> a.CandidatePrompt, patch |-> env.produced[a.produced].snapshot.Patch,
   tech |-> a.Tech.Score, realism |-> a.Realism.Score, final |-> a.FinalScore]

\* the number of intent gaps Execute asks the agent for
GapItems == 4

\* a variant of the counter update that never resets the counter
NoImprovementNeverReset(improved, n) == n + 1

\* noImprovement after an iteration: reset when the global best was
\* replaced, one more otherwise
NoImprovementAfter(improved, n) == IF improved THEN 0 ELSE n + 1

\* a variant that builds the packet from the first attempt of the iteration
PacketAttemptFirst(as) == as[1]

\* the attempt the feedback packet of the iteration is built from: bestAttempt
PacketAttempt(as) == as[BestAttemptIdx(as)]

\* feedback.BuildIterationPacket(iter, target, a.produced, a.log.Tech,
\* a.log.TestResult.Category, MaxPathRefs), from the facts worked out in env
PacketOf(iteration, a) ==
  [env.produced[a.produced].packet EXCEPT !.Iteration = iteration,
                                          !.TestCategory = a.TestResult.Category]

\* the packet after the entry for a failed coder run of attempt a
WithCoderIssue(p, a) ==
  IF a.CoderError # "" THEN [p EXCEPT !.IntentGaps = Append(@, CoderIssueGap)] ELSE p

\* a variant under which the externally summarized gaps are never merged
WithLlmGapIgnored(p, gap) == p

\* the packet after the externally summarized gaps: merged, deduplicated and
\* sorted when the call succeeded with at least one gap
WithLlmGap(p, gap) ==
  IF gap.err = "" /\ Len(gap.Gaps) > 0
  THEN [p EXCEPT !.IntentGaps = dedupeStrings(@ \o gap.Gaps)] ELSE p

\* the IterationLog appended for the iteration
IterationLog(sel, packet) ==
  [Iteration |-> iter, Drafts |-> out, CoderAttempts |-> attempts, SelectedAttempt |-> sel - 1,
   FeedbackPacket |-> packet, IterationBestScore |-> attempts[sel].FinalScore]

\* manager.SummarizeIntentGap for the best attempt, then the rest of the
\* loop body: iteration log, global best, previous prompt, stop rules
SummarizeIntentGap ==
  /\ pc = "gap"
  /\ ctx' = Returned
  /\ \E g \in Offered(env.gaps, {GapFailure}) :
       \E gap \in {IF g.err = "" THEN GapReply(FilterGaps(g.Gaps, GapItems, <<>>))
                   ELSE GapFailure} :
         \E a \in {PacketAttempt(attempts)} :
           \E built \in {PacketOf(iter, a)} :
             \E noted \in {WithCoderIssue(built, a)} :
               \E packet \in {WithLlmGap(noted, gap)} :
                 /\ llmGap' = gap
                 /\ feedbackText' = PacketText(packet)
                 /\ runLog' = Append(runLog, IterationLog(BestAttemptIdx(attempts), packet))
  /\ LET sel == BestAttemptIdx(attempts)
         bestAttempt == attempts[sel]
         improved == Improves(bestAttempt.FinalScore, best)
         streak == NoImprovementAfter(improved, noImprovement)
     IN  /\ best' =IF improved THEN BestFrom(iter, bestAttempt) ELSE best
         /\ noImprovement' = streak
         /\ previousPrompt' = bestAttempt.CandidatePrompt
         /\ previousOutcome' = OutcomeText(bestAttempt.Tech.Score, bestAttempt.Realism.Score,
                                           bestAttempt.FinalScore, bestAttempt.TestResult.Category)
         /\ IF ThresholdReached(bestAttempt.FinalScore)
            THEN /\ stoppedReason' = "threshold reached"
                 /\ pc' = "finalize"
                 /\ UNCHANGED <<iter, out, requests>>
            ELSE IF NoImprovementStop(streak)
            THEN /\ stoppedReason' = "no improvement for " \o Itoa(NoImprovementLimit) \o " iterations"
                 /\ pc' = "finalize"
                 /\ UNCHANGED <<iter, out, requests>>
            ELSE IF MoreIterations(iter)
            THEN /\ stoppedReason' = stoppedReason
                 /\ pc' = "generate"
                 /\ iter' = iter + 1
                 /\ out' = <<>>
                 /\ requests' = <<>>
            ELSE /\ stoppedReason' = stoppedReason
                 /\ pc' = "finalize"
                 /\ UNCHANGED <<iter, out, requests>>
  /\ UNCHANGED <<cfg, env, setupDone, err, attempt, violation, lastErr, call, validDrafts, promptHistory, rank,
                 cur, attempts, worktrees, artifacts, files>>

FileNo(f) == CHOOSE i \in DOMAIN FinalFiles : FinalFiles[i] = f

\* a variant of the contents below that describes the attempt selected in
\* the last iteration
FileContentOfLast(f) ==
  LET last == runLog[Len(runLog)].CoderAttempts[runLog[Len(runLog)].SelectedAttempt + 1]
  IN  IF f = "best_prompt.md" THEN last.CandidatePrompt \o "\n"
      ELSE IF f = "best.patch" THEN env.produced[last.produced].snapshot.Patch
      ELSE IF f = "run_log.json"
      THEN [BestIteration |-> Len(runLog), StoppedReason |-> stoppedReason, Iterations |-> runLog]
      ELSE [TechSimilarity |-> last.Tech.Score, RealismScore |-> last.Realism.Score,
            FinalScore |-> last.FinalScore, Alpha |-> cfg.Alpha, BestIteration |-> Len(runLog)]

\* what Execute writes into result file f
FileContent(f) ==
  IF f = "best_prompt.md" THEN best.prompt \o "\n"
  ELSE IF f = "best.patch" THEN best.patch
  ELSE IF f = "run_log.json"
  THEN [BestIteration |-> best.iteration, StoppedReason |-> stoppedReason, Iterations |-> runLog]
  ELSE [TechSimilarity |-> best.tech, RealismScore |-> best.realism, FinalScore |-> best.final,
        Alpha |-> cfg.Alpha, BestIteration |-> best.iteration]

\* Execute after the loop: the four result files; the first failing write ends
\* the run with an error
Finalize ==
  /\ pc = "finalize"
  /\ ctx' = Returned
  /\ IF best.iteration = 0
     THEN /\ pc' = "failed"
          /\ err' = "no successful iteration produced a candidate"
          /\ artifacts' = artifacts
          /\ files' = files
     ELSE \E f \in env.finalWrite :
            \E written \in {IF f = "" THEN Range(FinalFiles)
                             ELSE {FinalFiles[i] : i \in 1..(FileNo(f) - 1)}} :
              /\ pc' = IF f = "" THEN "done" ELSE "failed"
              /\ err' = IF f = "" THEN err ELSE "write " \o f
              /\ artifacts' = artifacts \cup written
              /\ files' = [w \in written |-> FileContent(w)]
  /\ UNCHANGED <<cfg, env, setupDone, iter, validDrafts, promptHistory, rank, cur, attempts, worktrees>>
  /\ UNCHANGED genVars
  /\ UNCHANGED <<best, noImprovement, stoppedReason, previousPrompt, previousOutcome, llmGap,
                 feedbackText, runLog>>

Next ==
  \/ Setup
  \/ GenerateSpecCandidate
  \/ CreateWorktree
  \/ RunCoder
  \/ SnapshotWorktree
  \/ JudgeRealism
  \/ RunBestEffortTests
  \/ WriteIterationPatch
  \/ SummarizeIntentGap
  \/ Finalize
  \/ Cancel

Spec == Init /\ [][Next]_vars


(***************************************************************************)
(* Properties of the search loop.                                          *)
(***************************************************************************)
\* the iteration-best final scores logged so far
Scores == [k \in DOMAIN runLog |-> runLog[k].IterationBestScore]

\* the earliest iteration whose best score is the maximum so far
EarliestMax ==
  CHOOSE k \in DOMAIN runLog :
    /\ \A j \in DOMAIN runLog : RLe(Scores[j], Scores[k])
    /\ \A j \in 1..(k - 1) : RLt(Scores[j], Scores[k])

\* the attempt selected as the best of iteration k
SelectedOf(k) == runLog[k].CoderAttempts[runLog[k].SelectedAttempt + 1]

\* the run has left the iteration loop
Stopped == pc \in {"finalize", "done", "failed"}

\* iteration k did not strictly improve on the best of the iterations before it
NonImproving(k) == \E j \in 1..(k - 1) : RGe(Scores[j], Scores[k])

\* the number of iterations completed since the last improving one
Streak ==
  IF runLog = <<>> THEN 0
  ELSE Len(runLog) - (CHOOSE k \in DOMAIN runLog :
                        ~NonImproving(k) /\ \A j \in (k + 1)..Len(runLog) : NonImproving(j))

\* C1: after any number of completed iterations the global best carries the
\* maximum of the iteration-best final scores, its iteration is the earliest
\* one that attained that maximum (so an iteration that does not exceed the
\* global best leaves the record as it is), and every field of the record
\* comes from the attempt selected in that iteration.
C1_GlobalBestIsEarliestMaximum ==
  IF runLog = <<>> THEN best.iteration = 0
  ELSE /\ best.iteration = EarliestMax
       /\ best.final = Scores[EarliestMax]
       /\ best.final = SelectedOf(EarliestMax).FinalScore
       /\ best.prompt = SelectedOf(EarliestMax).CandidatePrompt
       /\ best.patch = env.produced[SelectedOf(EarliestMax).produced].snapshot.Patch
       /\ best.tech = SelectedOf(EarliestMax).Tech.Score
       /\ best.realism = SelectedOf(EarliestMax).Realism.Score

\* five iterations with bests a, a, b, c, b where a < c < b: the global best
\* is b, found in iteration 3
C1_Witness ==
  /\ Len(runLog) >= 5
  /\ Scores[1] = Scores[2]
  /\ RLt(Scores[2], Scores[4])
  /\ RLt(Scores[4], Scores[3])
  /\ Scores[5] = Scores[3]
  /\ best.iteration = 3
  /\ best.final = Scores[3]

\* C2: once an iteration's best final score is greater than or equal to the
\* threshold, that iteration is the last one: the loop is left with stop
\* reason "threshold reached" and no later iteration starts; and the reason
\* is recorded for no other cause.
C2_ThresholdStopsTheRun ==
  /\ \A k \in DOMAIN runLog :
       RGe(Scores[k], cfg.Threshold) =>
         /\ k = Len(runLog)
         /\ iter = k
         /\ Stopped
         /\ stoppedReason = "threshold reached"
  /\ stoppedReason = "threshold reached" =>
       runLog # <<>> /\ RGe(Scores[Len(runLog)], cfg.Threshold)

\* the third iteration's best equals the threshold, the earlier ones are below
C2_Witness ==
  /\ Len(runLog) = 3
  /\ Scores[3] = cfg.Threshold
  /\ RLt(Scores[1], cfg.Threshold)
  /\ RLt(Scores[2], cfg.Threshold)
  /\ stoppedReason = "threshold reached"
  /\ pc = "done"

\* C3: the no-improvement counter is the number of iterations completed since
\* the last strictly improving one (an improvement resets it to 0); when it
\* reaches 3 the loop is left at once with stop reason "no improvement for 3
\* iterations", however many iterations remain, and the reason is recorded
\* for no other cause.
C3_NoImprovementStopsTheRun ==
  /\ noImprovement = Streak
  /\ Streak <= 3
  /\ Streak = 3 =>
       /\ Stopped
       /\ iter = Len(runLog)
       /\ stoppedReason = "no improvement for 3 iterations"
  /\ stoppedReason = "no improvement for 3 iterations" => Streak = 3

\* three iterations in a row without improvement end a run that had
\* iterations left
C3_Witness ==
  /\ Streak = 3
  /\ Len(runLog) < cfg.MaxIters
  /\ stoppedReason = "no improvement for 3 iterations"
  /\ pc = "done"

\* C4: no more than MaxIters iterations are started, and a run whose
\* MaxIters-th iteration meets neither stop rule leaves the loop with stop
\* reason "max-iters reached".
C4_AtMostMaxIters ==
  /\ iter <= cfg.MaxIters
  /\ Len(runLog) <= cfg.MaxIters
  /\ (/\ Len(runLog) = cfg.MaxIters
      /\ RLt(Scores[Len(runLog)], cfg.Threshold)
      /\ Streak < 3) =>
       /\ Stopped
       /\ stoppedReason = "max-iters reached"

\* a run of several iterations that ends because the iterations are used up
C4_Witness ==
  /\ cfg.MaxIters >= 3
  /\ Len(runLog) = cfg.MaxIters
  /\ RLt(Scores[Len(runLog)], cfg.Threshold)
  /\ Streak < 3
  /\ stoppedReason = "max-iters reached"
  /\ pc = "done"


(***************************************************************************)
(* Properties of scoring and of candidate generation.                      *)
(***************************************************************************)
\* every execution attempt recorded so far, in the iteration under way or logged
AllAttempts == Range(attempts) \cup UNION {Range(runLog[k].CoderAttempts) : k \in DOMAIN runLog}

InUnit(x) == RLe(RZero, x) /\ RLe(x, ROne)

\* C5: every attempt's technical and realism scores lie in [0,1], its final
\* score is alpha * technical + (1 - alpha) * realism, and so the final score
\* of every attempt, the best score of every iteration and the global best
\* score lie in [0,1].
C5_FinalScoreIsWeightedMean ==
  /\ InUnit(cfg.Alpha)
  /\ \A a \in AllAttempts :
       /\ InUnit(a.Tech.Score)
       /\ InUnit(a.Realism.Score)
       /\ a.FinalScore = RAdd(RMul(cfg.Alpha, a.Tech.Score),
                              RMul(RSub(ROne, cfg.Alpha), a.Realism.Score))
       /\ InUnit(a.FinalScore)
  /\ \A k \in DOMAIN runLog : InUnit(runLog[k].IterationBestScore)
  /\ best.iteration > 0 => InUnit(best.final)

\* an attempt whose diff matches the target in part and whose judge answered
\* above the range: the judge score counts as 1 and the final score stays
\* inside (0,1)
C5_Witness ==
  /\ JudgeReply(R(3, 2)) \in env.judge
  /\ JudgeReply(ROne) \notin env.judge
  /\ \E a \in AllAttempts :
       /\ RLt(RZero, a.Tech.Score) /\ RLt(a.Tech.Score, ROne)
       /\ a.Realism.JudgeScore = ROne
       /\ RLt(RZero, a.FinalScore) /\ RLt(a.FinalScore, ROne)
       /\ RLt(RZero, cfg.Alpha) /\ RLt(cfg.Alpha, ROne)
  /\ best.iteration > 0

\* the prompt passed the no-code validator and the structural check
Validated(p) ==
  /\ p \in DOMAIN env.prompts
  /\ env.prompts[p].noCode = ""
  /\ env.prompts[p].structured = ""

\* C6: every prompt ranked for execution, handed to the coder, kept in the
\* prompt history or kept as the best prompt has passed both the no-code
\* validator and the structural check; a prompt that failed one of them is
\* neither executed nor remembered.
C6_OnlyValidatedPromptsAreExecuted ==
  /\ \A i \in DOMAIN validDrafts : Validated(validDrafts[i].CandidatePrompt)
  /\ \A i \in DOMAIN promptHistory : Validated(promptHistory[i])
  /\ \A a \in AllAttempts : Validated(a.CandidatePrompt)
  /\ \A i \in DOMAIN out : out[i].valid => Validated(out[i].CandidatePrompt)
  /\ best.iteration > 0 => Validated(best.prompt)
  /\ previousPrompt # "" => Validated(previousPrompt)

\* the agent's first reply lacked the sections and the seed carried a code
\* marker: the draft executed is the one the agent produced on a retry
C6_Witness ==
  /\ env.replies = {Reply(TextFlat), Reply(TextB)}
  /\ ~env.seed[1]
  /\ env.seed[3] # ""
  /\ \E a \in Range(attempts) :
       /\ a.CandidatePrompt = TextB
       /\ \E i \in DOMAIN out : out[i].Index = a.CandidateIndex /\ out[i].ValidationRetries > 0

\* the drafts of every generation slot recorded so far
SlotDrafts ==
  {d \in Range(out) \cup UNION {Range(runLog[k].Drafts) : k \in DOMAIN runLog} : d.Style # SeedStyle}

\* C7: no slot is asked more than 5 times; a slot that validates on its k-th
\* request has issued k requests and records k-1 retries; a slot whose 5
\* requests all failed is dropped and records 5; a slot under way has issued
\* as many requests as it has failed attempts.
C7_AtMostFiveRequestsPerSlot ==
  /\ Len(requests) <= cfg.CandidatesPerIter
  /\ \A i \in DOMAIN requests :
       /\ requests[i] \in 1..5
       /\ IF i <= Len(out)
          THEN IF out[i].valid
               THEN out[i].ValidationRetries = requests[i] - 1 /\ out[i].GenerationError = ""
               ELSE /\ requests[i] = 5
                    /\ out[i].ValidationRetries = 5
                    /\ out[i].GenerationError # ""
          ELSE pc = "generate" /\ attempt = requests[i] /\ attempt < 5
  /\ \A d \in SlotDrafts :
       IF d.valid THEN d.ValidationRetries \in 0..4 ELSE d.ValidationRetries = 5

\* one slot validated on its fifth request, another was dropped after five
C7_Witness ==
  \E i, j \in DOMAIN requests :
    /\ i <= Len(out) /\ j <= Len(out)
    /\ out[i].valid /\ requests[i] = 5 /\ out[i].ValidationRetries = 4
    /\ ~out[j].valid /\ requests[j] = 5 /\ out[j].ValidationRetries = 5

\* generateCandidatePool has returned for the iteration under way
PoolComplete == iter >= 1 /\ Len(out) >= cfg.CandidatesPerIter

\* the run ended because the pool of the iteration had no valid candidate
GenerationFailed ==
  /\ pc = "failed"
  /\ err = "generate candidates for iteration " \o Itoa(iter) \o ": no valid candidates generated"

\* C8: candidate generation ends the run with a failure exactly when the pool
\* of the iteration is complete without one valid candidate: every slot was
\* dropped and there is no seed; this is so in any iteration.  With one valid
\* candidate the dropped slots are only recorded with their generation error
\* and the valid drafts go on to execution.  (Failures of the later stages -
\* working copy, snapshot, patch file - are a separate class of error.)
C8_RunFailsOnlyOnEmptyPool ==
  /\ GenerationFailed =>
       /\ PoolComplete
       /\ Len(out) = cfg.CandidatesPerIter
       /\ \A i \in DOMAIN out : ~out[i].valid /\ out[i].GenerationError # ""
       /\ ~env.seed[1]
  /\ (PoolComplete /\ ValidOf(out) = <<>>) => GenerationFailed
  /\ (PoolComplete /\ ValidOf(out) # <<>>) =>
       /\ pc # "generate"
       /\ Range(validDrafts) = Range(ValidOf(out))
       /\ \A i \in DOMAIN out : ~out[i].valid => out[i].GenerationError # ""
  /\ \A k \in DOMAIN runLog :
       /\ ValidOf(runLog[k].Drafts) # <<>>
       /\ runLog[k].CoderAttempts # <<>>
       /\ \A i \in DOMAIN runLog[k].Drafts :
            ~runLog[k].Drafts[i].valid => runLog[k].Drafts[i].GenerationError # ""

\* the first iteration went on with one slot dropped and one valid; in the
\* second every slot was dropped, and without a seed the run failed
C8_Witness ==
  /\ iter = 2
  /\ GenerationFailed
  /\ Len(runLog) = 1
  /\ \E i, j \in DOMAIN runLog[1].Drafts :
       ~runLog[1].Drafts[i].valid /\ runLog[1].Drafts[j].valid
  /\ Len(out) >= 2

\* the seed drafts of a pool
SeedDrafts(drafts) == SelectSeq(drafts, LAMBDA d : d.Style = SeedStyle)

\* the pool ends with the seed, and holds no other
SeedIsLast(drafts) ==
  /\ Len(SeedDrafts(drafts)) = 1
  /\ drafts # <<>>
  /\ drafts[Len(drafts)].Style = SeedStyle
  /\ drafts[Len(drafts)].Index = SeedIndex
  /\ drafts[Len(drafts)].valid
  /\ drafts[Len(drafts)].CandidatePrompt = env.seed[2]

\* a "#" followed by a digit: the number of a tracker reference
HasTrackerNumber(s) == \E i \in 1..(Len(s) - 1) : CharAt(s, i) = "#" /\ DigitAt(s, i + 1)

\* C9: the pool of every iteration holds exactly one seed (style
\* commit-message-seed, last in the pool, the same text in every iteration)
\* built from the commit message with the issue/PR references stripped, and
\* the seed is left out only when one of the two validators rejects it.
C9_SeedStrippedAndOmittedOnlyWhenInvalid ==
  PoolComplete =>
    IF env.seed[3] # "" THEN SeedDrafts(out) = <<>>
    ELSE SeedIsLast(out) /\ ~HasTrackerNumber(out[Len(out)].CandidatePrompt)


(***************************************************************************)
(* Ranking of larger pools.  The runs above rank at most MaxSlots + 1      *)
(* drafts; here Execute is entered right after generateCandidatePool has   *)
(* returned a pool of up to MaxDrafts valid drafts (the slots in slot      *)
(* order, the seed last), and ranks it.                                    *)
(***************************************************************************)
\* drafts in the largest pool ranked
MaxDrafts == 13

\* pre-score levels of a pool of n drafts: rising or falling with the
\* position, the draft at position b on the level of the one at position a
LevelOf(n, a, b, rising, i) ==
  LET j == IF i = b THEN a ELSE i
  IN  IF rising THEN j ELSE n + 1 - j

\* the draft at position i of a pool of n valid drafts, never seen before
\* (novelty 1), whose heuristic realism is level / (n + 1)
PoolDraft(n, i, level) ==
  [Index |-> IF i = n THEN SeedIndex ELSE i - 1,
   Style |-> IF i = n THEN SeedStyle ELSE candidateStyles(n - 1)[i],
   ValidationRetries |-> 0, GenerationError |-> "",
   CandidatePrompt |-> "draft " \o Itoa(i),
   PreRealism |-> R(level, n + 1), Novelty |-> ROne,
   PreScore |-> PreScoreOf(R(level, n + 1), ROne),
   valid |-> TRUE]

InitRank ==
  /\ \E n \in 2..MaxDrafts, rising \in BOOLEAN :
       \E a, b \in 1..n :
         /\ a <= b
         /\ cfg = [BaseCfg EXCEPT !.CandidatesPerIter = n - 1, !.CoderRunsPerIter = n - 1,
                                  !.MaxIters = 1]
         /\ out = [i \in 1..n |-> PoolDraft(n, i, LevelOf(n, a, b, rising, i))]
         /\ requests = [i \in 1..(n - 1) |-> 1]
  /\ ConfigValidate(cfg) = ""
  /\ env = [commitMessage |-> MsgPlain]
  /\ pc = "rank"
  /\ err = ""
  /\ iter = 1
  /\ attempt = 0
  /\ violation = ""
  /\ lastErr = ""
  /\ call = NoCall
  /\ validDrafts = <<>>
  /\ promptHistory = <<>>
  /\ rank = 0
  /\ cur = NoAttempt
  /\ attempts = <<>>
  /\ best = [iteration |-> 0, prompt |-> "", patch |-> "", tech |-> RZero, realism |-> RZero,
             final |-> RInt(0 - 1)]
  /\ noImprovement = 0
  /\ stoppedReason = "max-iters reached"
  /\ previousPrompt = ""
  /\ previousOutcome = ""
  /\ llmGap = GapFailure
  /\ feedbackText = ""
  /\ files = EmptyMap
  /\ runLog = <<>>
  /\ worktrees = {}
  /\ artifacts = {"target.patch"}
  /\ setupDone = Len(SetupSteps)
  /\ ctx = "live"

\* Execute from the return of generateCandidatePool to the execution loop
RankDrafts ==
  /\ pc = "rank"
  /\ ctx' = Returned
  /\ PoolDone(out)
  /\ UNCHANGED <<cfg, env, setupDone, iter, rank, cur, attempts, worktrees, artifacts>>
  /\ UNCHANGED genVars
  /\ UNCHANGED searchVars

NextRank == RankDrafts

SpecRank == InitRank /\ [][NextRank]_vars

\* C10: the valid drafts are executed in descending pre-score order, and
\* drafts of equal pre-score in their order in the pool (the slots in slot
\* order, the seed last).
C10_TiesKeepDraftOrder ==
  pc = "worktree" =>
    /\ Range(validDrafts) = Range(ValidOf(out))
    /\ \A i, j \in DOMAIN validDrafts :
         i < j =>
           \/ RGt(validDrafts[i].PreScore, validDrafts[j].PreScore)
           \/ /\ validDrafts[i].PreScore = validDrafts[j].PreScore
              /\ validDrafts[i].Index < validDrafts[j].Index


(***************************************************************************)
(* Properties of the execution of the ranked drafts.                       *)
(***************************************************************************)
\* the first position of as that carries the greatest final score
FirstMaximum(as) ==
  CHOOSE i \in DOMAIN as :
    /\ \A j \in DOMAIN as : RLe(as[j].FinalScore, as[i].FinalScore)
    /\ \A j \in 1..(i - 1) : RLt(as[j].FinalScore, as[i].FinalScore)

\* C11: the attempt selected as the best of an iteration carries the greatest
\* final score of the attempts executed in that iteration, and it is the
\* first such attempt in ranked execution order; the logged selected index
\* (0-based) and the logged iteration-best score are those of that attempt.
C11_IterationBestIsFirstMaximum ==
  \A k \in DOMAIN runLog :
    /\ runLog[k].CoderAttempts # <<>>
    /\ runLog[k].SelectedAttempt + 1 = FirstMaximum(runLog[k].CoderAttempts)
    /\ runLog[k].IterationBestScore =
         runLog[k].CoderAttempts[FirstMaximum(runLog[k].CoderAttempts)].FinalScore

\* an iteration whose two attempts tie selects the first, and the logged
\* score is theirs
C11_Witness ==
  \E k \in DOMAIN runLog :
    /\ Len(runLog[k].CoderAttempts) = 2
    /\ runLog[k].CoderAttempts[1].FinalScore = runLog[k].CoderAttempts[2].FinalScore
    /\ runLog[k].CoderAttempts[1].CandidateIndex # runLog[k].CoderAttempts[2].CandidateIndex
    /\ runLog[k].SelectedAttempt = 0
    /\ best.prompt = runLog[k].CoderAttempts[1].CandidatePrompt


\* the attempts whose coder run ended with an error
Errored(as) == {i \in DOMAIN as : as[i].CoderError # ""}

\* the attempt carries a produced snapshot and the scores worked out from it
Scored(a) ==
  /\ a.produced \in DOMAIN env.produced
  /\ a.Tech = env.produced[a.produced].tech
  /\ InUnit(a.Realism.Score)
  /\ a.FinalScore = RAdd(RMul(cfg.Alpha, a.Tech.Score),
                         RMul(RSub(ROne, cfg.Alpha), a.Realism.Score))

\* C12: an error or a timeout of the coder does not end the run or the
\* iteration: the run goes on to the snapshot, the attempt is recorded with
\* the error, a produced snapshot and all three scores, the remaining ranked
\* drafts are executed, and the attempt is chosen as the best of the
\* iteration whenever it is the first with the greatest final score.
C12_CoderErrorIsScoredNotFatal ==
  /\ pc = "failed" => (\A e \in env.coder : e = "" \/ ~Contains(err, e))
  /\ \A a \in AllAttempts : a.CoderError \in env.coder /\ Scored(a)
  /\ \A k \in DOMAIN runLog :
       /\ Len(runLog[k].CoderAttempts) =
            minInt(cfg.CoderRunsPerIter, Len(ValidOf(runLog[k].Drafts)))
       /\ runLog[k].SelectedAttempt + 1 = FirstMaximum(runLog[k].CoderAttempts)
  /\ (pc = "worktree" /\ rank > 0) => Len(attempts) = rank

\* the first attempt of an iteration timed out, the second was still run, and
\* the one that timed out is the best of the iteration and of the run
C12_Witness ==
  /\ Len(runLog) = 1
  /\ Len(runLog[1].CoderAttempts) = 2
  /\ runLog[1].CoderAttempts[1].CoderError = CoderTimeout
  /\ runLog[1].CoderAttempts[2].CoderError = ""
  /\ runLog[1].SelectedAttempt = 0
  /\ best.iteration = 1
  /\ best.prompt = runLog[1].CoderAttempts[1].CandidatePrompt
  /\ pc = "done"


\* the categories of a test run that failed
FailingCategories == {"timeout", "compilation", "unit-test", "test-failure"}

\* C13: an attempt whose coder run ended with an error carries a failing
\* test category in its recorded test outcome, and the timeout category when
\* the error was the per-attempt timeout.
C13_CoderErrorHasFailingCategory ==
  \A a \in AllAttempts :
    a.CoderError # "" =>
      /\ a.TestResult.Category \in FailingCategories
      /\ ~a.TestResult.Passed
      /\ a.CoderError = CoderTimeout => a.TestResult.Category = "timeout"


(***************************************************************************)
(* C14: the realism of an attempt and the judge.                           *)
(***************************************************************************)
Unit(x) == IF RLt(x, RZero) THEN RZero ELSE IF RLt(ROne, x) THEN ROne ELSE x

Blend(h, j) == RAdd(RMul(R(6, 10), h), RMul(R(4, 10), j))

\* the realism record r is the one of the claim for a judge call that
\* succeeded (hasJudge) or failed
RealismAsClaimed(r, hasJudge) ==
  IF hasJudge
  THEN /\ InUnit(r.JudgeScore)
       /\ r.Score = Unit(Blend(r.HeuristicScore, r.JudgeScore))
  ELSE r.Score = Unit(r.HeuristicScore)

\* C14: the realism score of every attempt, the one its final score is
\* computed from, is clamp01(0.6 * heuristic + 0.4 * judge) with the judge
\* score forced into [0,1] when the judge call succeeded, and
\* clamp01(heuristic) when it failed; a failed judge call is never the reason
\* the run fails, and the attempt is scored, tested and recorded all the same.
C14_RealismCombinesJudgeOrFallsBack ==
  /\ \A a \in AllAttempts :
       /\ RealismAsClaimed(a.Realism, a.hasJudge)
       /\ a.FinalScore = RAdd(RMul(cfg.Alpha, a.Tech.Score),
                              RMul(RSub(ROne, cfg.Alpha), a.Realism.Score))
  /\ pc \in {"tests", "patch"} => RealismAsClaimed(cur.realism, cur.hasJudge)
  /\ pc = "failed" => ~Contains(err, JudgeFailure.err)
  /\ \A k \in DOMAIN runLog :
       Len(runLog[k].CoderAttempts) =
         minInt(cfg.CoderRunsPerIter, Len(ValidOf(runLog[k].Drafts)))

\* a finished run with an attempt whose judge call failed (heuristic alone)
\* and an attempt whose judge score was above 1 (forced to 1, blended)
C14_Witness ==
  /\ pc = "done"
  /\ \E a, b \in AllAttempts :
       /\ ~a.hasJudge
       /\ a.Realism.Score = a.Realism.HeuristicScore
       /\ RLt(RZero, a.Realism.Score)
       /\ b.hasJudge
       /\ b.Realism.JudgeScore = ROne
       /\ b.Realism.Score # b.Realism.HeuristicScore
       /\ b.Realism.Score = Blend(b.Realism.HeuristicScore, ROne)


(***************************************************************************)
(* C15: working copies.                                                    *)
(***************************************************************************)
Executing == pc \in {"coder", "snapshot", "judge", "tests", "patch"}

\* the attempts recorded so far, with the iteration and the rank they ran at
Ran ==
  {<<k, i>> : k \in DOMAIN runLog, i \in 1..MaxSlots} \cup {<<iter, i>> : i \in 1..MaxSlots}

AttemptAt(k, i) ==
  IF k \in DOMAIN runLog THEN runLog[k].CoderAttempts[i] ELSE attempts[i]

Recorded ==
  {ki \in Ran : IF ki[1] \in DOMAIN runLog THEN ki[2] <= Len(runLog[ki[1]].CoderAttempts)
                ELSE (Executing \/ pc \in {"worktree", "gap"}) /\ ki[2] <= Len(attempts)}

\* every working copy is keyed by an (iteration, rank) that has been started
\* and is at the parent commit; recorded attempts have pairwise distinct keys;
\* the copy of the attempt under way exists and was created just before the
\* coding agent runs
KeyedAndFresh ==
  /\ \A w \in worktrees :
       /\ w.commit = "ParentSHA"
       /\ \E i \in 1..iter :
            \E r \in IF i < iter THEN 1..MaxSlots ELSE 1..(rank + 1) :
              w.runPath = RunName(i, r)
  /\ \A x, y \in Recorded :
       /\ AttemptAt(x[1], x[2]).ProducedPatchPath = RunName(x[1], x[2]) \o ".patch"
       /\ x # y => AttemptAt(x[1], x[2]).ProducedPatchPath # AttemptAt(y[1], y[2]).ProducedPatchPath
  /\ Executing => At(RunName(iter, rank + 1)) # {}
  /\ pc = "coder" => cur = NoAttempt

InfrastructureSteps == {"prepare base repo", "resolve commit", "collect target patch"}

\* nothing of the search has happened: no iteration, draft request, draft,
\* attempt or working copy
NothingStarted ==
  /\ iter = 0
  /\ runLog = <<>>
  /\ out = <<>>
  /\ requests = <<>>
  /\ validDrafts = <<>>
  /\ promptHistory = <<>>
  /\ attempts = <<>>
  /\ worktrees = {}
  /\ best.iteration = 0

\* C16: when the base repository cannot be prepared, the commit (or its
\* parent) cannot be resolved or the target diff cannot be computed, Execute
\* returns that error at once: the agent manager and the spec writer session
\* are never created, no iteration is started, nothing is generated or
\* executed, and none of the final files (best prompt, metrics, ...) is
\* written; and the loop is only ever entered after every step succeeded.
C16_InfrastructureFailureAbortsTheRun ==
  /\ pc \notin {"setup", "failed"} => setupDone = Len(SetupSteps)
  /\ \A f \in InfrastructureSteps :
       setupDone < StepNo(f) =>
         /\ pc \in {"setup", "failed"}
         /\ NothingStarted
         /\ pc = "failed" => artifacts = {} /\ err \in {"create runs dir"} \cup InfrastructureSteps
  /\ (pc = "failed" /\ err \in InfrastructureSteps) =>
       /\ setupDone = StepNo(err) - 1
       /\ setupDone < StepNo("create copilot manager")
       /\ NothingStarted
       /\ artifacts \cap Range(FinalFiles) = {}

\* the run failed because the commit could not be resolved
C16_Witness ==
  /\ pc = "failed"
  /\ err = "resolve commit"
  /\ setupDone = 2
  /\ NothingStarted
  /\ artifacts = {}


(***************************************************************************)
(* C17: cancellation of the context of the run.                            *)
(***************************************************************************)
\* the blocking calls that are calls to the external agent
AgentCalls == {"generate", "coder", "judge", "gap"}

\* C17: once the context of the run has been cancelled and the blocking call
\* that was in progress has returned (ctx = "done"), no call to the external
\* agent is issued any more (Execute is not about to generate a draft, run
\* the coder, ask the judge or ask for a gap summary) and the run does not
\* end in success.
C17_CancellationAbortsAtNextBoundary ==
  ctx = "done" => pc \notin AgentCalls /\ pc # "done"


(***************************************************************************)
(* The technical scorer on its own: a target and a produced snapshot are   *)
(* drawn from a family of git outputs over two files, and scored.          *)
(***************************************************************************)
\* the largest change a file can have in the family
MaxChange == 3

TechFiles == <<"a.go", "b.go">>

RECURSIVE Repeat(_, _)
Repeat(s, n) ==
  IF n <= 0 THEN "" ELSE IF n = 1 THEN s
  ELSE Repeat(s, n \div 2) \o Repeat(s, n - (n \div 2))

\* the changed lines of file f under change v >= 2: one added line; from 3
\* on the same line again (spaced differently), a line every file shares and
\* v - 3 removed lines
ChangeBody(f, v) ==
  "+" \o f \o " line\n"
    \o (IF v >= 3 THEN "+" \o f \o "   line \n+shared line\n" ELSE "")
    \o Repeat("-old line\n", v - 3)

\* git diff for file f under change v: 0 leaves the file alone, 1 changes
\* its mode only, v >= 2 changes lines
ChangePatch(f, v) ==
  IF v = 0 THEN ""
  ELSE "diff --git a/" \o f \o " b/" \o f \o "\n"
         \o (IF v = 1 THEN "old mode 100644\nnew mode 100755\n"
             ELSE "--- a/" \o f \o "\n+++ b/" \o f \o "\n@@ -1,2 +1,3 @@\n" \o ChangeBody(f, v))

ChangeNumstat(f, v) ==
  IF v = 0 THEN ""
  ELSE IF v = 1 THEN "0\t0\t" \o f \o "\n"
  ELSE Itoa(IF v >= 3 THEN 3 ELSE 1) \o "\t" \o Itoa(IF v >= 3 THEN v - 3 ELSE 0) \o "\t" \o f \o "\n"

\* the three git outputs of a working copy whose files have the changes va, vb
GitOutputs(va, vb) ==
  [patch |-> ChangePatch(TechFiles[1], va) \o ChangePatch(TechFiles[2], vb),
   files |-> (IF va = 0 THEN "" ELSE TechFiles[1] \o "\n")
               \o (IF vb = 0 THEN "" ELSE TechFiles[2] \o "\n"),
   numstat |-> ChangeNumstat(TechFiles[1], va) \o ChangeNumstat(TechFiles[2], vb)]

\* the facts about a snapshot the properties are stated on
SnapshotFacts(snapshot) ==
  [snapshot |-> snapshot,
   files |-> toSet(snapshot.ChangedFiles),
   tokens |-> parseUnifiedDiff(snapshot.Patch).global]

\* a target that adds five lines to and removes one from a.go and adds two
\* lines to b.go, and a produced change that is its a.go part alone
PartGit ==
  [patch |-> "diff --git a/a.go b/a.go\n--- a/a.go\n+++ b/a.go\n@@ -1,2 +1,6 @@\n-old one\n+new one\n+new two\n+new three\n+new four\n+new five\n",
   files |-> "a.go\n",
   numstat |-> "5\t1\ta.go\n"]

WholeGit ==
  [patch |-> PartGit.patch \o "diff --git a/b.go b/b.go\n--- a/b.go\n+++ b/b.go\n@@ -1 +1,3 @@\n+other one\n+other two\n",
   files |-> PartGit.files \o "b.go\n",
   numstat |-> PartGit.numstat \o "2\t0\tb.go\n"]

\* the git outputs the snapshots are drawn from
TechInputs == {GitOutputs(va, vb) : va, vb \in 0..MaxChange} \cup {PartGit, WholeGit}

InitTech ==
  /\ cfg = BaseCfg
  /\ \E g \in TechInputs :
       env = [target |-> SnapshotFacts(SnapshotOf(g)), produced |-> <<>>]
  /\ pc = "snapshot"
  /\ err = ""
  /\ iter = 1
  /\ out = <<>>
  /\ requests = <<>>
  /\ attempt = 0
  /\ violation = ""
  /\ lastErr = ""
  /\ call = NoCall
  /\ validDrafts = <<>>
  /\ promptHistory = <<>>
  /\ rank = 0
  /\ cur = NoAttempt
  /\ attempts = <<>>
  /\ best = [iteration |-> 0, prompt |-> "", patch |-> "", tech |-> RZero, realism |-> RZero,
             final |-> RInt(0 - 1)]
  /\ noImprovement = 0
  /\ stoppedReason = "max-iters reached"
  /\ previousPrompt = ""
  /\ previousOutcome = ""
  /\ llmGap = GapFailure
  /\ feedbackText = ""
  /\ files = EmptyMap
  /\ runLog = <<>>
  /\ worktrees = {}
  /\ artifacts = {"target.patch"}
  /\ setupDone = Len(SetupSteps)
  /\ ctx = "live"

\* produced is snapshotted and scored against the target
\* (tech := scoring.ScoreTechSimilarity(target, produced))
ScoreProduced ==
  /\ pc = "snapshot"
  /\ \E g \in TechInputs :
       LET produced == SnapshotFacts(SnapshotOf(g))
       IN  env' = [env EXCEPT !.produced =
                     <<[snapshot |-> produced.snapshot, files |-> produced.files,
                        tokens |-> produced.tokens,
                        tech |-> ScoreTechSimilarity(env.target.snapshot, produced.snapshot)]>>]
  /\ cur' = [cur EXCEPT !.produced = 1]
  /\ pc' = "judge"
  /\ UNCHANGED <<cfg, err, iter, validDrafts, promptHistory, rank, attempts, worktrees,
                 artifacts, setupDone, ctx>>
  /\ UNCHANGED genVars
  /\ UNCHANGED searchVars

NextTech == ScoreProduced

SpecTech == InitTech /\ [][NextTech]_vars

TechScored == pc = "judge" /\ cur.produced = 1 /\ DOMAIN env.produced = {1}

Target == env.target

Produced == env.produced[1]

Tech == env.produced[1].tech

DisjointFiles == Target.files \cap Produced.files = {}

DisjointTokens == (DOMAIN Target.tokens) \cap (DOMAIN Produced.tokens) = {}

NoTokens(side) == DOMAIN side.tokens = {}

\* C18: a snapshot scored against itself, the empty one included, gets file
\* Jaccard 1, diff similarity 1, precision, recall and F1 1, technical score
\* 1, and similarity 1 for every file.
C18_SelfSimilarityIsOne ==
  (TechScored /\ Produced.snapshot = Target.snapshot) =>
    /\ Tech.FileJaccard = ROne
    /\ Tech.DiffSimilarity = ROne
    /\ Tech.LinePrecision = ROne
    /\ Tech.LineRecall = ROne
    /\ Tech.LineF1 = ROne
    /\ Tech.Score = ROne
    /\ Len(Tech.PerFile) = Cardinality(Target.files)
    /\ \A i \in DOMAIN Tech.PerFile : Tech.PerFile[i].Similarity = ROne

\* a snapshot with two changed files, one of them with a repeated line, has
\* been scored against itself
C18_Witness ==
  /\ TechScored
  /\ Produced.snapshot = Target.snapshot
  /\ Cardinality(Target.files) = 2
  /\ \E k \in DOMAIN Target.tokens : Target.tokens[k] >= 2
  /\ Len(Tech.PerFile) = 2
  /\ Tech.Score = ROne

\* C19 (as stated): two snapshots with disjoint changed-file sets and
\* disjoint patch tokens get file Jaccard 0 and diff similarity 0.
C19_DisjointScoresZero ==
  (TechScored /\ DisjointFiles /\ DisjointTokens) =>
    Tech.FileJaccard = RZero /\ Tech.DiffSimilarity = RZero

\* C19 (amended): with disjoint changed-file sets the file Jaccard is 0
\* unless both sets are empty, when it is 1; with disjoint patch tokens the
\* diff similarity is 0 unless both snapshots have no token, when it is 1.
C19_DisjointScoresZeroUnlessBothEmpty ==
  TechScored =>
    /\ DisjointFiles =>
         Tech.FileJaccard = IF Target.files = {} /\ Produced.files = {} THEN ROne ELSE RZero
    /\ DisjointTokens =>
         Tech.DiffSimilarity = IF NoTokens(Target) /\ NoTokens(Produced) THEN ROne ELSE RZero

\* both snapshots change a file and lines, and share neither
C19_Witness ==
  /\ TechScored
  /\ DisjointFiles
  /\ DisjointTokens
  /\ Target.files # {}
  /\ Produced.files # {}
  /\ ~NoTokens(Target)
  /\ ~NoTokens(Produced)
  /\ Tech.FileJaccard = RZero
  /\ Tech.DiffSimilarity = RZero

\* C20: the line F1 is the harmonic mean of precision and recall; it is 0
\* when precision and recall are both 0 and 1 when neither snapshot has a
\* token; so a produced snapshot that shares no file and no token with a
\* target that has files and tokens gets technical score 0.
C20_F1IsHarmonicMeanWithZeroCase ==
  TechScored =>
    /\ ~RIsZero(RAdd(Tech.LinePrecision, Tech.LineRecall)) =>
         Tech.LineF1 = RDiv(RMul(RInt(2), RMul(Tech.LinePrecision, Tech.LineRecall)),
                            RAdd(Tech.LinePrecision, Tech.LineRecall))
    /\ (RIsZero(Tech.LinePrecision) /\ RIsZero(Tech.LineRecall)) => Tech.LineF1 = RZero
    /\ (NoTokens(Target) /\ NoTokens(Produced)) => Tech.LineF1 = ROne
    /\ (DisjointFiles /\ DisjointTokens /\ Target.files # {} /\ ~NoTokens(Target)) =>
         Tech.Score = RZero


(***************************************************************************)
(* C21: the technical score and the worked example.                        *)
(***************************************************************************)
Tokens == (DOMAIN Target.tokens) \cup (DOMAIN Produced.tokens)

CountIn(side, k) == IF k \in DOMAIN side.tokens THEN side.tokens[k] ELSE 0

SumMin == SumOver(Tokens, [k \in Tokens |-> minInt(CountIn(Target, k), CountIn(Produced, k))])

SumMax == SumOver(Tokens, [k \in Tokens |-> maxInt(CountIn(Target, k), CountIn(Produced, k))])

Example == Target.snapshot = SnapshotOf(WholeGit) /\ Produced.snapshot = SnapshotOf(PartGit)

SimilarityOf(path) ==
  LET i == CHOOSE j \in DOMAIN Tech.PerFile : Tech.PerFile[j].Path = path
  IN  Tech.PerFile[i].Similarity

\* C21: the technical score is clamp01(0.40 * fileJaccard + 0.45 *
\* diffSimilarity + 0.15 * F1), whatever the per-file similarities are, and
\* the diff similarity is the sum of min(count in target, count in produced)
\* over the sum of max(...) across all tokens of either side.  For the target
\* that changes a.go (5 added, 1 removed) and b.go (2 added) and the produced
\* change that is the a.go part alone: file Jaccard 1/2, per-file similarity 1
\* for a.go and 0 for b.go, diff similarity 6/8, precision 1, recall 6/8, and
\* a score strictly between 0 and 1.
C21_ScoreIsWeightedSumOfGlobalMeasures ==
  TechScored =>
    /\ Tech.Score = Unit(RAdd(RMul(R(40, 100), Tech.FileJaccard),
                              RAdd(RMul(R(45, 100), Tech.DiffSimilarity),
                                   RMul(R(15, 100), Tech.LineF1))))
    /\ Tokens # {} => Tech.DiffSimilarity = RDiv(RInt(SumMin), RInt(SumMax))
    /\ Example =>
         /\ Tech.FileJaccard = R(1, 2)
         /\ Len(Tech.PerFile) = 2
         /\ SimilarityOf("a.go") = ROne
         /\ SimilarityOf("b.go") = RZero
         /\ SumMin = 6
         /\ SumMax = 8
         /\ Tech.DiffSimilarity = R(6, 8)
         /\ Tech.LinePrecision = ROne
         /\ Tech.LineRecall = R(6, 8)
         /\ RLt(RZero, Tech.Score)
         /\ RLt(Tech.Score, ROne)

\* the example has been scored
C21_Witness ==
  /\ TechScored
  /\ Example
  /\ Tech.FileJaccard = R(1, 2)
  /\ Tech.DiffSimilarity = R(3, 4)


(***************************************************************************)
(* The realism heuristic on its own: a text is drawn from a family built   *)
(* by repeating one kind of unit after a base text, and scored under one   *)
(* of a few threshold configurations.                                      *)
(***************************************************************************)
\* the largest number of repetitions of a unit
MaxRepeat == 20

\* five path references, an identifier, a number, a bullet, a step word, filler
RealismUnits == <<"src/a.go lib/b.go cmd/c.go pkg/d.go doc/e.go ", "parseUnifiedDiff ", "42 ", "\n- item ", "then ", "plain words ">>

\* a text that mentions the four things the heuristic rewards, and one that
\* mentions none
RealismBases ==
  {"Context: the problem. It should work. Avoid rewrites. Acceptance: tests pass. ", "Words. "}

Repetitions == {0, 1, MaxRepeat \div 3, MaxRepeat}

AllUnits == RealismUnits[1] \o RealismUnits[2] \o RealismUnits[3] \o RealismUnits[5]
              \o RealismUnits[6] \o RealismUnits[4]

\* a text long enough for the largest penalty without a length limit
LongText == Repeat(RealismUnits[6], SoftLengthLimit \div 6)

RealismTexts ==
  {b \o Repeat(RealismUnits[k], n) : b \in RealismBases, k \in DOMAIN RealismUnits, n \in Repetitions}
    \cup {b \o Repeat(AllUnits, n) : b \in RealismBases, n \in Repetitions}
    \cup {"", " \n\t ", LongText}

RealismConfigs ==
  { [MaxPathRefs |-> 3, MaxIdentifiers |-> 25, MaxLength |-> 0],
    [MaxPathRefs |-> 0, MaxIdentifiers |-> 1, MaxLength |-> 0],
    [MaxPathRefs |-> 0, MaxIdentifiers |-> 1, MaxLength |-> 60],
    [MaxPathRefs |-> 3, MaxIdentifiers |-> 25, MaxLength |-> 300] }

\* the long text is scored without a length limit only
ConfigsFor(text) ==
  IF Len(text) > SoftLengthLimit THEN {c \in RealismConfigs : c.MaxLength = 0 /\ c.MaxPathRefs = 0}
  ELSE RealismConfigs

InitRealism ==
  /\ cfg = BaseCfg
  /\ \E text \in RealismTexts : env = [text |-> text, scored |-> <<>>]
  /\ pc = "generate"
  /\ err = ""
  /\ iter = 1
  /\ out = <<>>
  /\ requests = <<>>
  /\ attempt = 0
  /\ violation = ""
  /\ lastErr = ""
  /\ call = NoCall
  /\ validDrafts = <<>>
  /\ promptHistory = <<>>
  /\ rank = 0
  /\ cur = NoAttempt
  /\ attempts = <<>>
  /\ best = [iteration |-> 0, prompt |-> "", patch |-> "", tech |-> RZero, realism |-> RZero,
             final |-> RInt(0 - 1)]
  /\ noImprovement = 0
  /\ stoppedReason = "max-iters reached"
  /\ previousPrompt = ""
  /\ previousOutcome = ""
  /\ llmGap = GapFailure
  /\ feedbackText = ""
  /\ files = EmptyMap
  /\ runLog = <<>>
  /\ worktrees = {}
  /\ artifacts = {"target.patch"}
  /\ setupDone = Len(SetupSteps)
  /\ ctx = "live"

\* what is kept of one call of the heuristic: the configuration, the result,
\* and the adjustments it summed
RealismFacts(text, c) ==
  [cfg |-> c,
   realism |-> ScoreRealismHeuristic(text, c),
   adjustments |-> IF TrimSpace(text) = "" THEN <<>> ELSE RealismAdjustments(TrimSpace(text), c)]

\* realism := scoring.ScoreRealismHeuristic(text, RealismConfig{...})
ScoreRealism ==
  /\ pc = "generate"
  /\ \E c \in ConfigsFor(env.text) : env' = [env EXCEPT !.scored = <<RealismFacts(env.text, c)>>]
  /\ pc' = "rank"
  /\ UNCHANGED <<cfg, err, iter, validDrafts, promptHistory, rank, cur, attempts, worktrees,
                 artifacts, setupDone, ctx>>
  /\ UNCHANGED genVars
  /\ UNCHANGED searchVars

NextRealism == ScoreRealism

SpecRealism == InitRealism /\ [][NextRealism]_vars

RealismScored == pc = "rank" /\ Len(env.scored) = 1

RealismCall == env.scored[1]

Adjustment(i) == RealismCall.adjustments[i][1]

Penalty(i) == RSub(RZero, Adjustment(i))

\* C22: the heuristic realism score is in [0,1] for every text and every
\* configuration of the thresholds; an empty or whitespace-only text scores
\* 0; any other text scores clamp01(0.55 + the sum of the adjustments), and
\* the penalties are capped: length 0.25 (0.20 without a length limit), path
\* references 0.25, identifiers 0.25, numerics 0.12 flat, bullets 0.20, step
\* words 0.15.
C22_HeuristicRealismIsInUnitInterval ==
  RealismScored =>
    /\ InUnit(RealismCall.realism.HeuristicScore)
    /\ TrimSpace(env.text) = "" => RealismCall.realism.HeuristicScore = RZero
    /\ TrimSpace(env.text) # "" =>
         /\ Len(RealismCall.adjustments) = 10
         /\ RealismCall.realism.HeuristicScore =
              Unit(RAdd(R(55, 100), RSumFirst(RealismCall.adjustments)))
         /\ RLe(Penalty(1), IF RealismCall.cfg.MaxLength > 0 THEN R(25, 100) ELSE R(20, 100))
         /\ RLe(Penalty(2), R(25, 100))
         /\ RLe(Penalty(3), R(25, 100))
         /\ Adjustment(4) \in {RZero, RSub(RZero, R(12, 100))}
         /\ RLe(Penalty(5), R(20, 100)) /\ RLe(Adjustment(5), RZero)
         /\ RLe(Penalty(6), R(15, 100)) /\ RLe(Adjustment(6), RZero)
         /\ \A i \in 7..10 : RLe(RZero, Adjustment(i))

\* a text whose penalties are all at their caps: the sum is below 0 and the
\* score is 0
C22_Witness ==
  /\ RealismScored
  /\ TrimSpace(env.text) # ""
  /\ Penalty(1) = R(25, 100)
  /\ Penalty(2) = R(25, 100)
  /\ Penalty(3) = R(25, 100)
  /\ Penalty(4) = R(12, 100)
  /\ Penalty(5) = R(20, 100)
  /\ Penalty(6) = R(15, 100)
  /\ RLt(RAdd(R(55, 100), RSumFirst(RealismCall.adjustments)), RZero)
  /\ RealismCall.realism.HeuristicScore = RZero


(***************************************************************************)
(* Novelty on its own: a candidate text and a history of texts are drawn   *)
(* from a small set of texts, and noveltyScore is applied.                 *)
(***************************************************************************)
\* the longest history
MaxHistory == 2

NoveltyTexts ==
  {"", "a bc, de!", "Alpha beta.", "alpha, BETA!", "(alpha) gamma delta", "gamma delta",
   "beta alpha beta", "omega"}

Histories == UNION {[1..n -> NoveltyTexts] : n \in 0..MaxHistory}

InitNovelty ==
  /\ cfg = BaseCfg
  /\ \E c \in NoveltyTexts, h \in Histories : env = [candidate |-> c, history |-> h, scored |-> <<>>]
  /\ pc = "generate"
  /\ err = ""
  /\ iter = 1
  /\ out = <<>>
  /\ requests = <<>>
  /\ attempt = 0
  /\ violation = ""
  /\ lastErr = ""
  /\ call = NoCall
  /\ validDrafts = <<>>
  /\ promptHistory = <<>>
  /\ rank = 0
  /\ cur = NoAttempt
  /\ attempts = <<>>
  /\ best = [iteration |-> 0, prompt |-> "", patch |-> "", tech |-> RZero, realism |-> RZero,
             final |-> RInt(0 - 1)]
  /\ noImprovement = 0
  /\ stoppedReason = "max-iters reached"
  /\ previousPrompt = ""
  /\ previousOutcome = ""
  /\ llmGap = GapFailure
  /\ feedbackText = ""
  /\ files = EmptyMap
  /\ runLog = <<>>
  /\ worktrees = {}
  /\ artifacts = {"target.patch"}
  /\ setupDone = Len(SetupSteps)
  /\ ctx = "live"

\* novelty := noveltyScore(candidate, history); the token sets are kept too
ScoreNovelty ==
  /\ pc = "generate"
  /\ env' = [env EXCEPT !.scored =
               <<[novelty |-> noveltyScore(env.candidate, env.history),
                  candTokens |-> toTokenSet(env.candidate),
                  historyTokens |-> [i \in DOMAIN env.history |-> toTokenSet(env.history[i])]]>>]
  /\ pc' = "rank"
  /\ UNCHANGED <<cfg, err, iter, validDrafts, promptHistory, rank, cur, attempts, worktrees,
                 artifacts, setupDone, ctx>>
  /\ UNCHANGED genVars
  /\ UNCHANGED searchVars

NextNovelty == ScoreNovelty

SpecNovelty == InitNovelty /\ [][NextNovelty]_vars

NoveltyScored == pc = "rank" /\ Len(env.scored) = 1

NoveltyCall == env.scored[1]

\* the Jaccard similarity of two token sets, two empty sets being the same
Similarity(a, b) == IF a \cup b = {} THEN ROne ELSE R(Cardinality(a \cap b), Cardinality(a \cup b))

\* C23: the novelty of a candidate is in [0,1]; it is 1 for an empty
\* history, and otherwise 1 minus the largest Jaccard similarity between the
\* token set of the candidate and the token set of a history entry; so it is
\* 0 when a history entry has the token set of the candidate, also when the
\* candidate has no token at all.
C23_NoveltyIsOneMinusBestSimilarity ==
  NoveltyScored =>
    LET c == NoveltyCall.candTokens
        h == NoveltyCall.historyTokens
    IN  /\ InUnit(NoveltyCall.novelty)
        /\ Len(h) = 0 => NoveltyCall.novelty = ROne
        /\ Len(h) > 0 =>
             /\ \E i \in DOMAIN h : NoveltyCall.novelty = RSub(ROne, Similarity(c, h[i]))
             /\ \A i \in DOMAIN h : RLe(NoveltyCall.novelty, RSub(ROne, Similarity(c, h[i])))
        /\ (\E i \in DOMAIN h : h[i] = c) => NoveltyCall.novelty = RZero
        /\ (\E i \in DOMAIN env.history : env.history[i] = env.candidate) =>
             NoveltyCall.novelty = RZero

\* a candidate without any token of four characters, scored against a
\* history that holds it
C23_Witness ==
  /\ NoveltyScored
  /\ env.candidate # ""
  /\ NoveltyCall.candTokens = {}
  /\ env.history = <<"omega", env.candidate>>
  /\ NoveltyCall.novelty = RZero


(***************************************************************************)
(* The two validators on their own: a text is put together from the four   *)
(* sections, in any order or with one of them left out, and at most one    *)
(* extra line, and both validators are applied.                            *)
(***************************************************************************)
SectionTexts ==
  << "# Context\nCurrently sessions drop on reconnect.",
     "# Desired Outcomes\nClients should resume sessions.",
     "# Constraints and Non-Goals\nAvoid unrelated refactors.",
     "# Acceptance Criteria\nTests verify resume." >>

\* the sections in any order, and the sections but one in the order above
SectionOrders ==
  {o \in [1..4 -> 1..4] : Range(o) = 1..4}
    \cup {o \in [1..3 -> 1..4] : o[1] < o[2] /\ o[2] < o[3]}

\* what may follow the sections: nothing, or a line with something the
\* prompt rules forbid
Extras ==
  [none |-> "",
   fence |-> "\n" \o BT \o BT \o BT \o "\nresume := true\n" \o BT \o BT \o BT,
   inline |-> "\nUse " \o BT \o "resume" \o BT \o " for this.",
   tracker |-> "\nThis closes #123.",
   bracketed |-> "\nSee the report (#123).",
   diff |-> "\ndiff --git a/a.go b/a.go",
   command |-> "\ngo test ./..."]

ValidatedText(order, extra) ==
  Join([i \in DOMAIN order |-> SectionTexts[order[i]]], "\n") \o Extras[extra]

InitValidate ==
  /\ cfg = BaseCfg
  /\ \E order \in SectionOrders, extra \in DOMAIN Extras :
       env = [sections |-> order, extra |-> extra, text |-> ValidatedText(order, extra),
              verdicts |-> <<>>]
  /\ pc = "generate"
  /\ err = ""
  /\ iter = 1
  /\ out = <<>>
  /\ requests = <<>>
  /\ attempt = 0
  /\ violation = ""
  /\ lastErr = ""
  /\ call = NoCall
  /\ validDrafts = <<>>
  /\ promptHistory = <<>>
  /\ rank = 0
  /\ cur = NoAttempt
  /\ attempts = <<>>
  /\ best = [iteration |-> 0, prompt |-> "", patch |-> "", tech |-> RZero, realism |-> RZero,
             final |-> RInt(0 - 1)]
  /\ noImprovement = 0
  /\ stoppedReason = "max-iters reached"
  /\ previousPrompt = ""
  /\ previousOutcome = ""
  /\ llmGap = GapFailure
  /\ feedbackText = ""
  /\ files = EmptyMap
  /\ runLog = <<>>
  /\ worktrees = {}
  /\ artifacts = {"target.patch"}
  /\ setupDone = Len(SetupSteps)
  /\ ctx = "live"

\* ValidateNoCodePrompt and ValidateStructuredPrompt on the text, as
\* generateValidCandidate applies them ("" = accepted)
ValidatePrompt ==
  /\ pc = "generate"
  /\ env' = [env EXCEPT !.verdicts =
               <<[noCode |-> ValidateNoCodePrompt(env.text, cfg.MaxLength),
                  structured |-> ValidateStructuredPrompt(env.text)]>>]
  /\ pc' = "rank"
  /\ UNCHANGED <<cfg, err, iter, validDrafts, promptHistory, rank, cur, attempts, worktrees,
                 artifacts, setupDone, ctx>>
  /\ UNCHANGED genVars
  /\ UNCHANGED searchVars

NextValidate == ValidatePrompt

SpecValidate == InitValidate /\ [][NextValidate]_vars

ValidationDone == pc = "rank" /\ Len(env.verdicts) = 1

Verdicts == env.verdicts[1]

\* C24: a text with a fenced block, an inline code marker, a tracker
\* reference such as #123, a diff --git line (or a command line) is rejected
\* by the no-code check; a text that lacks one of the four sections is
\* rejected by the section check; a text with the four sections, in any
\* order, and none of these is accepted by both; and the verdict of each
\* check does not depend on what the other one looks at.
C24_ValidationRejectsMarkersAndMissingSections ==
  ValidationDone =>
    /\ (Verdicts.noCode = "") <=> (env.extra = "none")
    /\ (Verdicts.structured = "") <=> (Len(env.sections) = 4)


(***************************************************************************)
(* The best-effort test runner on its own: a repository root with any of   *)
(* the gate files, and one way for each test command to end.               *)
(***************************************************************************)
\* the variables of the run at rest, around an input e under study
Standalone(e, at) ==
  /\ cfg = BaseCfg
  /\ env = e
  /\ pc = at
  /\ err = ""
  /\ iter = 1
  /\ out = <<>>
  /\ requests = <<>>
  /\ attempt = 0
  /\ violation = ""
  /\ lastErr = ""
  /\ call = NoCall
  /\ validDrafts = <<>>
  /\ promptHistory = <<>>
  /\ rank = 0
  /\ cur = NoAttempt
  /\ attempts = <<>>
  /\ best = [iteration |-> 0, prompt |-> "", patch |-> "", tech |-> RZero, realism |-> RZero,
             final |-> RInt(0 - 1)]
  /\ noImprovement = 0
  /\ stoppedReason = "max-iters reached"
  /\ previousPrompt = ""
  /\ previousOutcome = ""
  /\ llmGap = GapFailure
  /\ feedbackText = ""
  /\ files = EmptyMap
  /\ runLog = <<>>
  /\ worktrees = {}
  /\ artifacts = {"target.patch"}
  /\ setupDone = Len(SetupSteps)
  /\ ctx = "live"

\* the commands of RunBestEffortTests, in its order
TestCommands ==
  << [name |-> "go", gate |-> "go.mod"],
     [name |-> "npm", gate |-> "package.json"],
     [name |-> "cargo", gate |-> "Cargo.toml"] >>

\* how one test command can end: whether its deadline passed, whether
\* cmd.Run returned an error, and what it wrote
CommandEndings ==
  { [deadline |-> FALSE, failed |-> FALSE, output |-> "ok"],
    [deadline |-> FALSE, failed |-> FALSE, output |-> "0 FAILED"],
    [deadline |-> TRUE, failed |-> TRUE, output |-> "signal: killed"],
    [deadline |-> FALSE, failed |-> TRUE, output |-> "Build FAILED"],
    [deadline |-> FALSE, failed |-> TRUE, output |-> "--- FAIL: got 1, Expected 2"],
    [deadline |-> FALSE, failed |-> TRUE, output |-> "exit status 1"] }

classifyTestFailure(output) ==
  IF Contains(output, "compile") \/ Contains(output, "build failed")
       \/ Contains(output, "syntax error")
  THEN "compilation"
  ELSE IF Contains(output, "assert") \/ Contains(output, "expected")
            \/ Contains(output, "failed") \/ Contains(output, "panic")
       THEN "unit-test"
       ELSE "test-failure"

runSingleTestCommand(ending) ==
  IF ending.deadline THEN TestFailed("timeout")
  ELSE IF ending.failed THEN TestFailed(classifyTestFailure(ToLower(ending.output \o "\n")))
  ELSE TestPass

\* the loop of RunBestEffortTests from command i on: the result and the
\* commands that were run
RECURSIVE TestLoopFirstOnly(_, _, _, _)
TestLoopFirstOnly(markers, endings, i, ran) ==
  IF i > Len(TestCommands)
  THEN [result |-> IF ran = <<>> THEN TestNotRun ELSE TestPass, ran |-> ran]
  ELSE IF TestCommands[i].gate \notin markers
       THEN TestLoopFirstOnly(markers, endings, i + 1, ran)
       ELSE [result |-> runSingleTestCommand(endings[i]),
             ran |-> Append(ran, TestCommands[i].name)]

RECURSIVE TestLoop(_, _, _, _)
TestLoop(markers, endings, i, ran) ==
  IF i > Len(TestCommands)
  THEN [result |-> IF ran = <<>> THEN TestNotRun ELSE TestPass, ran |-> ran]
  ELSE IF TestCommands[i].gate \notin markers
       THEN TestLoop(markers, endings, i + 1, ran)
       ELSE LET res == runSingleTestCommand(endings[i])
                ran2 == Append(ran, TestCommands[i].name)
            IN  IF ~res.Passed
                THEN [result |-> res, ran |-> ran2]
                ELSE TestLoop(markers, endings, i + 1, ran2)

Gates == {TestCommands[i].gate : i \in DOMAIN TestCommands}

InitTests ==
  \E markers \in SUBSET Gates, endings \in [DOMAIN TestCommands -> CommandEndings] :
    Standalone([markers |-> markers, endings |-> endings, ran |-> <<>>], "tests")

\* RunBestEffortTests on the repository root
RunRootTests ==
  /\ pc = "tests"
  /\ LET r == TestLoop(env.markers, env.endings, 1, <<>>)
     IN  /\ cur' = [cur EXCEPT !.TestResult = r.result]
         /\ env' = [env EXCEPT !.ran = r.ran]
  /\ pc' = "patch"
  /\ UNCHANGED <<cfg, err, iter, validDrafts, promptHistory, rank, attempts, worktrees,
                 artifacts, setupDone, ctx>>
  /\ UNCHANGED genVars
  /\ UNCHANGED searchVars

NextTests == RunRootTests

SpecTests == InitTests /\ [][NextTests]_vars

TestsDone == pc = "patch" /\ "markers" \in DOMAIN env

\* the commands whose gate file is at the root, in the runner's order
Matching == SelectSeq(TestCommands, LAMBDA c : c.gate \in env.markers)

Categories == {"not_run", "pass", "compilation", "unit-test", "timeout", "test-failure"}

\* the ending of the command called name
EndingOf(name) ==
  env.endings[CHOOSE i \in DOMAIN TestCommands : TestCommands[i].name = name]

Passes(name) == ~EndingOf(name).deadline /\ ~EndingOf(name).failed

\* C25 as stated: only the command of the first ecosystem whose marker is
\* at the root is run, one command at most; the category is one of the six
\* and is not_run exactly when no marker is present.
C25_OnlyFirstMatchingCommandRuns ==
  TestsDone =>
    /\ Len(env.ran) <= 1
    /\ Matching # <<>> => env.ran = <<Matching[1].name>>
    /\ cur.TestResult.Category \in Categories
    /\ cur.TestResult.Category = "not_run" <=> env.markers = {}

\* C25: the commands of the ecosystems whose marker is at the root are run
\* in the fixed order up to and including the first one that does not pass;
\* the category is that of this command, pass when all of them passed, and
\* not_run exactly when no marker is present; a command whose deadline
\* passed gives timeout.
C25_MatchingCommandsRunUntilOneFails ==
  TestsDone =>
    LET n == Len(env.ran)
    IN  /\ n <= Len(Matching)
        /\ \A i \in 1..n : env.ran[i] = Matching[i].name
        /\ \A i \in 1..(n - 1) : Passes(env.ran[i])
        /\ n < Len(Matching) => ~Passes(env.ran[n])
        /\ cur.TestResult.Category \in Categories
        /\ cur.TestResult.Category = "not_run" <=> env.markers = {}
        /\ cur.TestResult.Category = "pass" <=> (n > 0 /\ Passes(env.ran[n]))
        /\ (n > 0 /\ EndingOf(env.ran[n]).deadline) => cur.TestResult.Category = "timeout"
        /\ cur.TestResult.Passed <=> cur.TestResult.Category \in {"not_run", "pass"}

\* two markers at the root, the first command passed and the second was run
\* and failed
C25_Witness ==
  /\ TestsDone
  /\ Len(env.ran) = 2
  /\ Passes(env.ran[1])
  /\ cur.TestResult.Category = "unit-test"


(***************************************************************************)
(* Making the target commit available, on its own: a clone that has the   *)
(* commit or not, is shallow or not, and one outcome for each fetch.       *)
(***************************************************************************)
\* a git fetch: whether the command succeeded and whether the commit is in
\* the clone afterwards; a fetch by SHA that fails leaves the clone as it was
FetchOutcomes == [ok : BOOLEAN, brings : BOOLEAN]

Fetches == <<"fetch sha", "fetch tags", "fetch heads", "fetch unshallow">>

Clones ==
  { c \in [local : BOOLEAN, shallow : {"true", "false", "error"},
           fetch : [Range(Fetches) -> FetchOutcomes]] :
      ~c.fetch["fetch sha"].ok => ~c.fetch["fetch sha"].brings }

\* git rev-parse --verify commit^{commit}: recorded with what it found
RevParse(s) == [s EXCEPT !.ran = Append(@, [cmd |-> "rev-parse", had |-> s.has])]

\* a git fetch, recorded with whether the commit was there before it
Fetch(s, clone, cmd) ==
  [has |-> s.has \/ clone.fetch[cmd].brings, ran |-> Append(s.ran, [cmd |-> cmd, had |-> s.has])]

isShallowRepo(s) == [s EXCEPT !.ran = Append(@, [cmd |-> "is-shallow", had |-> s.has])]

Available(s) == [err |-> "", ran |-> s.ran]

NotAvailable == "target commit not available after fetch"

EnsureCommitAvailableAlwaysUnshallow(clone) ==
  LET s1 == RevParse([has |-> clone.local, ran |-> <<>>])
      s2 == Fetch(s1, clone, "fetch sha")
      s3 == IF clone.fetch["fetch sha"].ok THEN RevParse(s2) ELSE s2
      s5 == Fetch(Fetch(s3, clone, "fetch tags"), clone, "fetch heads")
      s6 == RevParse(s5)
      s8 == RevParse(Fetch(isShallowRepo(s6), clone, "fetch unshallow"))
      s9 == RevParse(s8)
  IN  IF s1.has THEN Available(s1)
      ELSE IF clone.fetch["fetch sha"].ok /\ s3.has THEN Available(s3)
      ELSE IF s6.has THEN Available(s6)
      ELSE IF s8.has THEN Available(s8)
      ELSE [err |-> IF s9.has THEN "" ELSE NotAvailable, ran |-> s9.ran]

EnsureCommitAvailable(clone) ==
  LET s1 == RevParse([has |-> clone.local, ran |-> <<>>])
      s2 == Fetch(s1, clone, "fetch sha")
      s3 == IF clone.fetch["fetch sha"].ok THEN RevParse(s2) ELSE s2
      s5 == Fetch(Fetch(s3, clone, "fetch tags"), clone, "fetch heads")
      s6 == RevParse(s5)
      s7 == isShallowRepo(s6)
      s8 == IF clone.shallow = "true" THEN RevParse(Fetch(s7, clone, "fetch unshallow")) ELSE s7
      s9 == RevParse(s8)
  IN  IF s1.has THEN Available(s1)
      ELSE IF clone.fetch["fetch sha"].ok /\ s3.has THEN Available(s3)
      ELSE IF s6.has THEN Available(s6)
      ELSE IF clone.shallow = "true" /\ s8.has THEN Available(s8)
      ELSE [err |-> IF s9.has THEN "" ELSE NotAvailable, ran |-> s9.ran]

InitEnsure ==
  \E clone \in Clones : Standalone([clone |-> clone, ran |-> <<>>], "setup")

\* EnsureCommitAvailable on the clone, as ResolveCommitInfo calls it
EnsureCommit ==
  /\ pc = "setup"
  /\ LET r == EnsureCommitAvailable(env.clone)
     IN  /\ env' = [env EXCEPT !.ran = r.ran]
         /\ err' = r.err
         /\ pc' = IF r.err = "" THEN "generate" ELSE "failed"
  /\ UNCHANGED <<cfg, iter, validDrafts, promptHistory, rank, cur, attempts, worktrees,
                 artifacts, setupDone, ctx>>
  /\ UNCHANGED genVars
  /\ UNCHANGED searchVars

NextEnsure == EnsureCommit

SpecEnsure == InitEnsure /\ [][NextEnsure]_vars

EnsureDone == pc \in {"generate", "failed"} /\ "clone" \in DOMAIN env

\* the fetches that were run, in the order they were run
FetchesRan == SelectSeq([i \in DOMAIN env.ran |-> env.ran[i].cmd], LAMBDA c : c \in Range(Fetches))

\* the strategies that apply to the clone: unshallow only when the clone
\* reports itself shallow
Applicable ==
  IF env.clone.shallow = "true" THEN Fetches ELSE SubSeq(Fetches, 1, 3)

\* whether the commit is in the clone when the operation returns
ResolvesAtEnd ==
  env.clone.local \/ \E i \in DOMAIN env.ran :
                       env.ran[i].cmd \in Range(Fetches) /\ env.clone.fetch[env.ran[i].cmd].brings

Returns ==
  \/ Setup
  \/ GenerateSpecCandidate
  \/ CreateWorktree
  \/ RunCoder
  \/ SnapshotWorktree
  \/ JudgeRealism
  \/ RunBestEffortTests
  \/ WriteIterationPatch
  \/ SummarizeIntentGap
  \/ Finalize

\* every external call eventually returns
SpecLive == Init /\ [][Next]_vars /\ WF_vars(Returns)

StopReasons ==
  {"threshold reached", "no improvement for " \o Itoa(NoImprovementLimit) \o " iterations",
   "max-iters reached"}

Terminal == pc = "failed" \/ (pc = "done" /\ stoppedReason \in StopReasons)

\* coder executions started in the current iteration
ExecutionsStarted ==
  IF pc \in {"coder", "snapshot", "judge", "tests", "patch"} THEN rank + 1
  ELSE IF pc = "generate" THEN 0 ELSE rank

WithinBudgets ==
  /\ iter <= cfg.MaxIters
  /\ Len(runLog) <= cfg.MaxIters
  /\ SumSeq(requests) <= 5 * cfg.CandidatesPerIter
  /\ ExecutionsStarted <= cfg.CoderRunsPerIter
  /\ \A k \in DOMAIN runLog : Len(runLog[k].CoderAttempts) <= cfg.CoderRunsPerIter

\* once out of the loop the controller starts no iteration, request or
\* execution, and a terminal state is left no more
StaysStopped ==
  /\ Stopped => Stopped' /\ iter' = iter /\ runLog' = runLog /\ requests' = requests
                  /\ rank' = rank
  /\ pc \in {"done", "failed"} => pc' = pc

\* C27: when every external call eventually returns, the run eventually is
\* Done with one of the three stop reasons or Failed; at any time at most
\* MaxIters iterations have been started, the current iteration has issued
\* at most 5 * CandidatesPerIter generation requests and started at most
\* CoderRunsPerIter executions; and no step leads from a stop state back
\* into the loop.
C27_EveryRunTerminatesWithinBudgets ==
  /\ <>[]Terminal
  /\ []WithinBudgets
  /\ [][StaysStopped]_vars

\* a run that used every iteration it was allowed and is done
C27_Witness ==
  /\ pc = "done"
  /\ stoppedReason = "max-iters reached"
  /\ Len(runLog) = cfg.MaxIters
  /\ cfg.MaxIters = MaxItersBound


(***************************************************************************)
(* C28: which drafts of an iteration are executed.                         *)
(***************************************************************************)
\* the valid draft of a pool with a given index
DraftOf(drafts, index) == CHOOSE d \in Range(ValidOf(drafts)) : d.Index = index

\* the attempts are the first n drafts of the ranking, one attempt each, in
\* ranked order
FirstOfRanking(ranking, run, n) ==
  /\ Len(run) = n
  /\ \A i \in 1..n :
       /\ run[i].CandidateIndex = ranking[i].Index
       /\ run[i].CandidatePrompt = ranking[i].CandidatePrompt

\* every valid draft that was executed scores at least as high before
\* execution as every valid draft that was not
ExecutedOutrank(drafts, run) ==
  LET executed == {run[i].CandidateIndex : i \in DOMAIN run}
  IN  /\ \A i \in DOMAIN run : \E d \in Range(ValidOf(drafts)) : d.Index = run[i].CandidateIndex
      /\ \A i, j \in DOMAIN run : i # j => run[i].CandidateIndex # run[j].CandidateIndex
      /\ \A d, e \in Range(ValidOf(drafts)) :
           (d.Index \in executed /\ e.Index \notin executed) => RGe(d.PreScore, e.PreScore)
      /\ \A i, j \in DOMAIN run :
           i < j => RGe(DraftOf(drafts, run[i].CandidateIndex).PreScore,
                        DraftOf(drafts, run[j].CandidateIndex).PreScore)

PreScoreAsClaimed(d) ==
  /\ d.PreRealism = Facts(d.CandidatePrompt).realism.HeuristicScore
  /\ d.PreScore = RAdd(RMul(R(4, 5), d.PreRealism), RMul(R(1, 5), d.Novelty))

\* C28: in every iteration the drafts executed are the first
\* min(CoderRunsPerIter, number of valid drafts) drafts of the ranking, one
\* after another in ranked order (while the iteration is under way, the
\* first ones of these); every executed draft has a preScore at least that
\* of every valid draft not executed; and the preScore of a valid draft is
\* 0.8 * heuristic realism + 0.2 * novelty.
C28_TopRankedDraftsAreExecuted ==
  /\ \A k \in DOMAIN runLog :
       /\ Len(runLog[k].CoderAttempts)
            = minInt(cfg.CoderRunsPerIter, Len(ValidOf(runLog[k].Drafts)))
       /\ ExecutedOutrank(runLog[k].Drafts, runLog[k].CoderAttempts)
       /\ \A d \in Range(ValidOf(runLog[k].Drafts)) : PreScoreAsClaimed(d)
  /\ pc \in {"worktree", "coder", "snapshot", "judge", "tests", "patch", "gap"} =>
       /\ \A i \in 1..(Len(validDrafts) - 1) :
            RGe(validDrafts[i].PreScore, validDrafts[i + 1].PreScore)
       /\ Range(validDrafts) = Range(ValidOf(out))
       /\ rank <= minInt(cfg.CoderRunsPerIter, Len(validDrafts))
       /\ FirstOfRanking(validDrafts, attempts, rank)
       /\ ExecutedOutrank(out, attempts)
       /\ pc = "gap" => rank = minInt(cfg.CoderRunsPerIter, Len(validDrafts))

\* an iteration is logged in which a valid draft was left out: it is not the
\* first of its pool and scores strictly less than the draft executed
C28_Witness ==
  \E k \in DOMAIN runLog :
    \E d, e \in Range(ValidOf(runLog[k].Drafts)) :
      /\ Len(runLog[k].CoderAttempts) = 1
      /\ runLog[k].CoderAttempts[1].CandidateIndex = d.Index
      /\ e.Index # d.Index
      /\ RGt(d.PreScore, e.PreScore)
      /\ d.Index > e.Index


(***************************************************************************)
(* C29: the violation reason a generation request carries.                 *)
(***************************************************************************)
\* a GenerateSpecCandidate call returns in this step
IssuesRequest == pc = "generate" /\ requests' # requests

\* no request has been issued yet for the slot under way
FirstOfSlot == Len(requests) <= Len(out)

StrictJSON == "output must be strict JSON with candidatePrompt/rationale/scopeHints"

\* the reason for which a reply is rejected, "" for a reply that is accepted,
\* on the verdicts of the two validators kept in env
ReasonIn(reply) ==
  IF reply.err # "" THEN StrictJSON
  ELSE IF Facts(reply.CandidatePrompt).noCode # ""
  THEN "no-code constraint violation: " \o Facts(reply.CandidatePrompt).noCode
  ELSE IF Facts(reply.CandidatePrompt).structured # ""
  THEN "structured format violation: " \o Facts(reply.CandidatePrompt).structured
  ELSE ""

CarriesReasonOfPrecedingAttempt ==
  IssuesRequest =>
    /\ call'.Iteration = iter
    /\ call'.slot = Len(out)
    /\ IF FirstOfSlot THEN call'.ViolationReason = ""
       ELSE /\ call.Iteration = iter
            /\ call.slot = Len(out)
            /\ ReasonIn(call.reply) # ""
            /\ call'.ViolationReason = ReasonIn(call.reply)

\* C29: the first request of a generation slot carries no violation reason;
\* every later request of the slot follows a rejected reply of the same slot
\* and iteration and carries the reason of that rejection (the no-code or
\* the structural violation, or the strict-JSON reason when the call
\* returned an error); so no reason passes from one slot or iteration to
\* another.
C29_RequestCarriesReasonOfPrecedingAttempt == [][CarriesReasonOfPrecedingAttempt]_vars

\* the first slot was dropped after its five requests, and a request of the
\* second slot carried a no-code violation of that slot
C29_Witness ==
  /\ Len(out) >= 1
  /\ ~out[1].valid
  /\ call.slot = 1
  /\ call.Iteration = iter
  /\ HasPrefix(call.ViolationReason, "no-code constraint violation: ")


(***************************************************************************)
(* C30: the prompt history.                                                *)
(***************************************************************************)
\* the prompts of the valid drafts of the logged iterations 1..k, in order
RECURSIVE PromptsThrough(_)
PromptsThrough(k) ==
  IF k = 0 THEN <<>>
  ELSE PromptsThrough(k - 1) \o PromptsOf(ValidOf(runLog[k].Drafts))

\* the pool of the iteration under way has been returned and is not logged yet
PoolReturned == iter > Len(runLog) /\ pc \notin {"setup", "generate"}

IsPrefix(p, q) == Len(p) <= Len(q) /\ SubSeq(q, 1, Len(p)) = p

HistoryAsClaimed ==
  /\ promptHistory = PromptsThrough(Len(runLog))
                       \o (IF PoolReturned THEN PromptsOf(ValidOf(out)) ELSE <<>>)
  /\ \A k \in DOMAIN runLog : \A d \in Range(ValidOf(runLog[k].Drafts)) :
       d.Novelty = NoveltyIn(d.CandidatePrompt, PromptsThrough(k - 1))
  /\ iter > Len(runLog) =>
       \A d \in Range(ValidOf(out)) :
         d.Novelty = NoveltyIn(d.CandidatePrompt, PromptsThrough(Len(runLog)))

\* C30: the prompt history only ever grows at its end; when iteration k
\* starts it is the list, in order, of the prompts of all valid drafts of
\* iterations 1..k-1 (executed or not, the seed included), it stays so while
\* the pool of iteration k is generated, and the novelty of every valid draft
\* of iteration k, the seed included, is its novelty against that list.
C30_HistoryIsEveryValidPromptOfEarlierIterations ==
  /\ []HistoryAsClaimed
  /\ [][IsPrefix(promptHistory, promptHistory')]_vars

\* the third iteration is generating: the history holds two prompts of each
\* of the two iterations before, of which one each was executed
C30_Witness ==
  /\ pc = "generate"
  /\ iter = 3
  /\ Len(runLog) = 2
  /\ Len(promptHistory) = 4
  /\ \A k \in 1..2 : Len(runLog[k].CoderAttempts) = 1 /\ Len(ValidOf(runLog[k].Drafts)) = 2
  /\ \E d \in Range(ValidOf(runLog[2].Drafts)) : d.Index = SeedIndex /\ RLt(d.Novelty, ROne)


(***************************************************************************)
(* Feedback carried from one iteration to the next.                        *)
(***************************************************************************)
\* the packet the requests of iteration k are built from
ContextPacket(k) == IF k = 1 THEN env.initialPacket ELSE runLog[k - 1].FeedbackPacket

\* the packet of iteration k as Execute computes it without the external
\* summary: built from the selected attempt, with the entry for a failed coder
DeterministicPacket(k) == WithCoderIssue(PacketOf(k, SelectedOf(k)), SelectedOf(k))

\* the last external gap summary added nothing
NoExternalGaps == llmGap.err # "" \/ Len(llmGap.Gaps) = 0

ContextAsClaimed ==
  /\ call.Iteration >= 1 =>
       call.FeedbackText
         = env.objectiveAnchor \o "\n\n" \o PacketText(ContextPacket(call.Iteration))
  /\ pc \notin {"setup", "failed"} \/ runLog # <<>> =>
       feedbackText = PacketText(ContextPacket(Len(runLog) + 1))
  /\ \A k \in DOMAIN runLog :
       /\ [runLog[k].FeedbackPacket EXCEPT !.IntentGaps = <<>>]
            = [DeterministicPacket(k) EXCEPT !.IntentGaps = <<>>]
       /\ k = Len(runLog) /\ NoExternalGaps =>
            runLog[k].FeedbackPacket = DeterministicPacket(k)

\* the external gap summary returns to the loop whatever its outcome
GapSummaryNeverAborts == pc = "gap" => pc' \in {"gap", "generate", "finalize"} /\ err' = ""

\* C31: every generation request of iteration k >= 2 carries the packet
\* built from the selected best attempt of iteration k - 1, the requests of
\* iteration 1 carry the initial packet built from the target alone; when
\* the external gap summary fails or is empty the packet keeps the gap list
\* computed from the two diffs, and the run goes on.
C31_ContextComesFromSelectedAttempt == []ContextAsClaimed /\ [][GapSummaryNeverAborts]_vars

\* a request of iteration 3 carries the packet of the attempt selected in
\* iteration 2, which did not improve on the global best of iteration 1 and
\* differs from it; the external gap summary of an iteration had failed
C31_Witness ==
  /\ call.Iteration = 3
  /\ best.iteration = 1
  /\ SelectedOf(2).produced # SelectedOf(1).produced
  /\ runLog[2].FeedbackPacket # [runLog[1].FeedbackPacket EXCEPT !.Iteration = 2]
  /\ call.FeedbackText = env.objectiveAnchor \o "\n\n" \o PacketText(runLog[2].FeedbackPacket)
  /\ llmGap = GapFailure


(***************************************************************************)
(* The feedback packet on its own: BuildIterationPacket and PacketText     *)
(* applied to pairs of snapshots.                                          *)
(***************************************************************************)
\* the files a snapshot of this specification can change, with the changed
\* lines of each
FeedbackFiles ==
  << [path |-> "a.go", body |-> "--- a/a.go\n+++ b/a.go\n@@ -1 +1 @@\n+\tretry the http call on error\n"],
     [path |-> "docs/guide.md",
      body |-> "new file mode 100644\n--- /dev/null\n+++ b/docs/guide.md\n@@ -0,0 +1 @@\n+Guide\n"],
     [path |-> "pkg/config_test.go",
      body |-> "--- a/pkg/config_test.go\n+++ b/pkg/config_test.go\n@@ -1 +1 @@\n+import cache\n"],
     [path |-> "web/handler.go",
      body |-> "--- a/web/handler.go\n+++ b/web/handler.go\n@@ -1 +1 @@\n+log the request\n"] >>

\* the three git outputs of a working copy in which the files numbered in S
\* are changed
FeedbackGit(S) ==
  LET chosen == SortedSeq(S, Len(FeedbackFiles))
  IN  [patch |-> Join([i \in DOMAIN chosen |->
                         "diff --git a/" \o FeedbackFiles[chosen[i]].path \o " b/"
                           \o FeedbackFiles[chosen[i]].path \o "\n"
                           \o FeedbackFiles[chosen[i]].body], ""),
       files |-> Join([i \in DOMAIN chosen |-> FeedbackFiles[chosen[i]].path \o "\n"], ""),
       numstat |-> Join([i \in DOMAIN chosen |->
                           "1\t0\t" \o FeedbackFiles[chosen[i]].path \o "\n"], "")]

\* values of MaxPathRefs the packets are built under
PathRefLimits == {0, 1, 3}

InitPacket ==
  \E St, Sp \in SUBSET (DOMAIN FeedbackFiles), maxPaths \in PathRefLimits :
    Standalone([target |-> SnapshotOf(FeedbackGit(St)), produced |-> SnapshotOf(FeedbackGit(Sp)),
                maxPaths |-> maxPaths, packet |-> <<>>], "gap")

\* feedback.BuildIterationPacket for the pair, then feedback.PacketText
BuildPacket ==
  /\ pc = "gap"
  /\ \E packet \in {BuildIterationPacket(iter, env.target, env.produced,
                                         ScoreTechSimilarity(env.target, env.produced),
                                         "pass", env.maxPaths)} :
       /\ env' = [env EXCEPT !.packet = <<packet>>]
       /\ feedbackText' = PacketText(packet)
  /\ pc' = "generate"
  /\ UNCHANGED <<cfg, err, iter, validDrafts, promptHistory, rank, cur, attempts, worktrees,
                 artifacts, setupDone, ctx>>
  /\ UNCHANGED genVars
  /\ UNCHANGED <<best, noImprovement, stoppedReason, previousPrompt, previousOutcome, llmGap,
                 files, runLog>>

NextPacket == BuildPacket

SpecPacket == InitPacket /\ [][NextPacket]_vars

PacketBuilt == pc = "generate" /\ Len(env.packet) = 1

Packet == env.packet[1]

TargetIntents == toSet(Packet.TargetIntentSignals)

ProducedIntents == toSet(Packet.ProducedIntentSignals)

\* how often entry e occurs in list q
Occurrences(q, e) == Cardinality({i \in DOMAIN q : q[i] = e})

MissingEntry(x) == "target indicates " \o x \o " but produced change may not"

OverFocusEntry(x) == "produced change may over-focus on " \o x

AlignMarker == "intent categories largely align"

\* C32: the gap list has exactly one "target indicates X ..." entry per
\* intent of the target the produced change lacks, exactly one "... may
\* over-focus on X" entry per intent of the produced change the target
\* lacks, and nothing else; it is the single alignment marker exactly when
\* both intent sets are equal, and it is never empty.  The missing and the
\* unexpected files are files of the target only and of the produced change
\* only, and no file is in both lists.
C32_GapListIsTheSymmetricDifference ==
  PacketBuilt =>
    /\ \A x \in TargetIntents \cup ProducedIntents :
         /\ Occurrences(Packet.IntentGaps, MissingEntry(x))
              = IF x \in TargetIntents \ ProducedIntents THEN 1 ELSE 0
         /\ Occurrences(Packet.IntentGaps, OverFocusEntry(x))
              = IF x \in ProducedIntents \ TargetIntents THEN 1 ELSE 0
    /\ Len(Packet.IntentGaps)
         = IF TargetIntents = ProducedIntents THEN 1
           ELSE Cardinality(TargetIntents \ ProducedIntents)
                  + Cardinality(ProducedIntents \ TargetIntents)
    /\ Packet.IntentGaps = <<AlignMarker>> <=> TargetIntents = ProducedIntents
    /\ AlignMarker \in toSet(Packet.IntentGaps) <=> TargetIntents = ProducedIntents
    /\ Packet.IntentGaps # <<>>
    /\ toSet(Packet.MissingFiles)
         \subseteq toSet(env.target.ChangedFiles) \ toSet(env.produced.ChangedFiles)
    /\ toSet(Packet.UnexpectedFiles)
         \subseteq toSet(env.produced.ChangedFiles) \ toSet(env.target.ChangedFiles)
    /\ toSet(Packet.MissingFiles) \cap toSet(Packet.UnexpectedFiles) = {}

\* both sides have intents the other lacks and share one; the target has
\* more files of its own than the packet lists
C32_Witness ==
  /\ PacketBuilt
  /\ TargetIntents \ ProducedIntents # {}
  /\ ProducedIntents \ TargetIntents # {}
  /\ TargetIntents \cap ProducedIntents # {}
  /\ Packet.UnexpectedFiles # <<>>
  /\ Packet.MissingFiles # <<>>
  /\ toSet(Packet.MissingFiles)
       # toSet(env.target.ChangedFiles) \ toSet(env.produced.ChangedFiles)


\* list q of strings is in the order sort.Strings leaves
IsSortedStrings(q) == \A i \in 1..(Len(q) - 1) : ~StrLess(q[i + 1], q[i])

\* the lists of packet p that PacketText joins into the generation context
RenderedLists(p) ==
  {p.RepresentativePaths, p.MissingFiles, p.UnexpectedFiles, p.TargetIntentSignals,
   p.ProducedIntentSignals, p.IntentGaps}

\* C33: in every iteration every list of the feedback packet that is
\* rendered into the generation context of the next iteration
\* (representative paths, missing and unexpected files, target and produced
\* intent signals, intent gaps) is in sorted order, whether or not the
\* external gap summary or a coder error added entries.
C33_RenderedListsAreSorted ==
  \A k \in DOMAIN runLog : \A q \in RenderedLists(runLog[k].FeedbackPacket) : IsSortedStrings(q)


\* the number of completed iterations
Completed == Len(runLog)

NaNRun == [Quiet EXCEPT !.cfg.Alpha = NaN, !.cfg.MaxIters = 3, !.cancel = TRUE]

InitNaN ==
  /\ ConfigValidate(NaNRun.cfg) = ""
  /\ cfg = NaNRun.cfg
  /\ env = MakeEnv(NaNRun)
  /\ pc = "setup"
  /\ err = ""
  /\ iter = 0
  /\ out = <<>>
  /\ requests = <<>>
  /\ attempt = 0
  /\ violation = ""
  /\ lastErr = ""
  /\ call = NoCall
  /\ validDrafts = <<>>
  /\ promptHistory = <<>>
  /\ rank = 0
  /\ cur = NoAttempt
  /\ attempts = <<>>
  /\ best = [iteration |-> 0, prompt |-> "", patch |-> "", tech |-> RZero, realism |-> RZero,
             final |-> RInt(0 - 1)]
  /\ noImprovement = 0
  /\ stoppedReason = "max-iters reached"
  /\ previousPrompt = ""
  /\ previousOutcome = ""
  /\ llmGap = GapFailure
  /\ feedbackText = ""
  /\ files = EmptyMap
  /\ runLog = <<>>
  /\ worktrees = {}
  /\ artifacts = {}
  /\ setupDone = 0
  /\ ctx = "live"

SpecNaN == InitNaN /\ [][Next]_vars

NoCandidateFailure == "no successful iteration produced a candidate"

\* C35: under a configuration Config.Validate accepts, every completed
\* iteration executed at least one attempt and its selected index is in
\* range, every final score is at least 0, the first completed iteration
\* sets the global best, and the run never fails with "no successful
\* iteration produced a candidate".
C35_NoCandidateFailureIsUnreachable ==
  ConfigValidate(cfg) = "" =>
    /\ \A k \in DOMAIN runLog :
         /\ Len(runLog[k].CoderAttempts) >= 1
         /\ runLog[k].SelectedAttempt + 1 \in DOMAIN runLog[k].CoderAttempts
         /\ \A i \in DOMAIN runLog[k].CoderAttempts :
              RGe(runLog[k].CoderAttempts[i].FinalScore, RZero)
    /\ Completed >= 1 => best.iteration >= 1
    /\ err # NoCandidateFailure


\* Execute has left the iteration loop through one of its exits
LoopLeft == pc \in {"finalize", "done"} \/ "run_log.json" \in artifacts

PoolsReturned == DOMAIN runLog \cup (IF PoolReturned /\ iter >= 1 THEN {iter} ELSE {})

\* the drafts of the pool of iteration k
PoolOf(k) == IF k \in DOMAIN runLog THEN runLog[k].Drafts ELSE out

\* the seed of the pool of iteration k
SeedOf(k) == SeedDrafts(PoolOf(k))[1]

HasSeed(k) == SeedDrafts(PoolOf(k)) # <<>>

\* C37: in iteration 1 every valid draft, the seed included, has novelty 1;
\* in a later iteration whose pool has the seed and follows an iteration
\* that had it, the seed has novelty 0 and preScore 0.8 * heuristic realism,
\* and its preScore is never above the one of the iteration before.
C37_SeedNoveltyDropsToZero ==
  \A k \in PoolsReturned :
    /\ k = 1 => \A i \in DOMAIN PoolOf(1) : PoolOf(1)[i].valid => PoolOf(1)[i].Novelty = ROne
    /\ k >= 2 /\ HasSeed(k) /\ (\E j \in 1..(k - 1) : HasSeed(j)) =>
         /\ SeedOf(k).Novelty = RZero
         /\ SeedOf(k).PreScore = RMul(R(8, 10), Facts(SeedOf(k).CandidatePrompt).realism.HeuristicScore)
         /\ HasSeed(k - 1) /\ RLe(SeedOf(k).PreScore, SeedOf(k - 1).PreScore)

\* the third pool of a run: the seed had novelty 1 and a higher preScore in
\* the first pool, and novelty 0 from the second on, with another prompt
\* appended to the history after it
C37_Witness ==
  /\ 3 \in PoolsReturned
  /\ HasSeed(1) /\ HasSeed(2) /\ HasSeed(3)
  /\ SeedOf(1).Novelty = ROne
  /\ RLt(SeedOf(2).PreScore, SeedOf(1).PreScore)
  /\ SeedOf(3).PreScore = SeedOf(2).PreScore
  /\ SeedOf(3).Novelty = RZero
  /\ promptHistory[Len(promptHistory)] = SeedOf(3).CandidatePrompt
  /\ Len(PoolOf(1)) >= 2 /\ PoolOf(1)[1].valid /\ PoolOf(1)[1].Novelty = ROne


\* the result files, as opposed to target.patch and the iteration patches
ResultFiles == Range(FinalFiles)

\* the fatal errors Execute raises inside the iteration loop
LoopErrors ==
  {e \in {err} : \/ HasPrefix(e, "generate candidates for iteration ")
                 \/ HasPrefix(e, "all candidate generations failed in iteration ")
                 \/ HasPrefix(e, "create worktree for iteration ")
                 \/ HasPrefix(e, "snapshot produced patch for iteration ")
                 \/ HasPrefix(e, "write iteration patch")}

\* the record of the global best after the completed iterations
GlobalBest == BestFrom(EarliestMax, SelectedOf(EarliestMax))

\* C38: result files exist only once the loop was left through a stop rule,
\* and then each holds what the global best of the completed iterations
\* says; a run ended by a fatal error inside the loop has written none of
\* them, whatever global best the earlier iterations had found.
C38_ResultFilesOnlyAfterTheLoop ==
  /\ artifacts \cap ResultFiles = DOMAIN files
  /\ DOMAIN files # {} =>
       /\ pc \in {"done", "failed"}
       /\ stoppedReason \in StopReasons
       /\ LoopErrors = {}
       /\ best = GlobalBest
       /\ \A f \in DOMAIN files : files[f] = FileContent(f)
       /\ "best_prompt.md" \in DOMAIN files /\ files["best_prompt.md"] = GlobalBest.prompt \o "\n"
       /\ "best.patch" \in DOMAIN files => files["best.patch"] = GlobalBest.patch
       /\ "metrics.json" \in DOMAIN files =>
            /\ files["metrics.json"].FinalScore = Scores[EarliestMax]
            /\ files["metrics.json"].BestIteration = EarliestMax
       /\ "run_log.json" \in DOMAIN files =>
            /\ files["run_log.json"].Iterations = runLog
            /\ files["run_log.json"].BestIteration = EarliestMax
  /\ pc = "done" => DOMAIN files = ResultFiles
  /\ LoopErrors # {} => pc = "failed" /\ DOMAIN files = {}

\* a fatal error of the second iteration: the first iteration had set a
\* global best, and nothing of it is on disk
C38_Witness ==
  /\ pc = "failed"
  /\ LoopErrors # {}
  /\ iter = 2
  /\ best.iteration = 1
  /\ Completed = 1
  /\ DOMAIN files = {}
  /\ artifacts \cap ResultFiles = {}


\* Execute has returned
RunEnded == pc \in {"done", "failed"}

\* C39: when the keep flag is not set, no working copy the run created
\* exists once the run has ended, whichever way it ended: a stop rule, a
\* failed snapshot of the produced change, a failed write of the iteration
\* patch, or another fatal error raised while a working copy exists.
C39_NoWorkingCopyLeftBehind == ~cfg.KeepRuns /\ RunEnded => worktrees = {}


(***************************************************************************)
(* The technical scorer applied both ways round: after produced has been   *)
(* scored against the target, the target is scored against produced.       *)
(***************************************************************************)
\* scoring.ScoreTechSimilarity(produced, target): the same function with its
\* arguments exchanged
ScoreReversed ==
  /\ pc = "judge"
  /\ cur.produced = 1
  /\ "reversed" \notin DOMAIN env
  /\ \E r \in {ScoreTechSimilarity(env.produced[1].snapshot, env.target.snapshot)} :
       env' = [target |-> env.target, produced |-> env.produced, reversed |-> r]
  /\ pc' = "tests"
  /\ UNCHANGED <<cfg, err, iter, validDrafts, promptHistory, rank, cur, attempts, worktrees,
                 artifacts, setupDone, ctx>>
  /\ UNCHANGED genVars
  /\ UNCHANGED searchVars

NextSym == ScoreProduced \/ ScoreReversed

SpecSym == InitTech /\ [][NextSym]_vars

BothScored == pc = "tests" /\ "reversed" \in DOMAIN env /\ DOMAIN env.produced = {1}

Reversed == env.reversed

\* the six measures of a technical score
Measures(t) ==
  {t.FileJaccard, t.DiffSimilarity, t.LinePrecision, t.LineRecall, t.LineF1, t.Score}

\* C40: the technical score is symmetric and bounded: scoring A against B and
\* B against A gives the same file Jaccard, diff similarity, F1 and final
\* score, with precision and recall exchanged, and each of the six measures
\* lies in [0,1].
C40_TechScoreIsSymmetricAndBounded ==
  BothScored =>
    /\ Reversed.FileJaccard = Tech.FileJaccard
    /\ Reversed.DiffSimilarity = Tech.DiffSimilarity
    /\ Reversed.LineF1 = Tech.LineF1
    /\ Reversed.Score = Tech.Score
    /\ Reversed.LinePrecision = Tech.LineRecall
    /\ Reversed.LineRecall = Tech.LinePrecision
    /\ \A m \in Measures(Tech) \cup Measures(Reversed) : InUnit(m)

\* both ways scored for two snapshots that differ, share a line in different
\* counts, and have different precision and recall
C40_Witness ==
  /\ BothScored
  /\ Target.snapshot # Produced.snapshot
  /\ \E k \in (DOMAIN Target.tokens) \cap (DOMAIN Produced.tokens) :
       Target.tokens[k] # Produced.tokens[k]
  /\ Tech.LinePrecision # Tech.LineRecall
  /\ Reversed.LinePrecision = Tech.LineRecall
  /\ RLt(RZero, Tech.Score)
  /\ RLt(Tech.Score, ROne)






=============================================================================
